---- MODULE Spec2Model ----
(***************************************************************************)
(* Text2SQL: the schema relevance matcher (SchemaParser.search_schema),    *)
(* its CSV-backed counterpart (RAGContextProvider._search_csv_schema) and  *)
(* the context provider built on it; the DDL extractor and the CSV loader; *)
(* and the application layer: the guardrail gate, the workflow graphs and  *)
(* their handlers, the query cache and process_query.                      *)
(*                                                                         *)
(* A Python str is a sequence of one-character strings, so that lower(),   *)
(* re.findall, `in` (substring) and strip() are computed, not assumed.     *)
(* An insertion-ordered dict is a sequence of [key, value] entries.        *)
(***************************************************************************)
EXTENDS Naturals, Sequences, FiniteSets, TLC

VARIABLES
    tables,         \* SchemaParser.tables: ordered dict name -> {"columns": [...]}
    relationships,  \* SchemaParser.relationships: list of foreign keys
    csv_loader,     \* RAGContextProvider.csv_loader: tables, columns, joins
    query_retriever,\* RAGContextProvider.query_retriever: "none" or "ready"
    pc,             \* "idle" between calls, "done" when a call has come back
    call,           \* the call that came back: operation, arguments, outcome
    session_state,  \* st.session_state: graph_state, messages and the two flags
    graph_run,      \* the graph run or node application under way, and its trace
    query_cache     \* langchain_utils.query_cache: dict key -> result

vars ==
    <<tables, relationships, csv_loader, query_retriever, pc, call,
      session_state, graph_run, query_cache>>

----------------------------------------------------------------------------
(* Bounds of the model *)

MaxTables == 4
MaxRels == 2
MaxQueryWords == 2
MaxColumns == 2
MaxDocs == 2
MaxRows == 2
MaxHistory == 6
MaxNodeHistory == 5
MaxWaits == 3

----------------------------------------------------------------------------
(* Python str primitives *)

UpperChars == <<"A","B","C","D","E","F","G","H","I","J","K","L","M",
                "N","O","P","Q","R","S","T","U","V","W","X","Y","Z">>
LowerChars == <<"a","b","c","d","e","f","g","h","i","j","k","l","m",
                "n","o","p","q","r","s","t","u","v","w","x","y","z">>
DigitChars == {"0","1","2","3","4","5","6","7","8","9"}

Range(s) == {s[i] : i \in DOMAIN s}

\* the lowercase and the uppercase form of each letter
LowerOf == [c \in Range(UpperChars) |->
               LowerChars[CHOOSE i \in DOMAIN UpperChars : UpperChars[i] = c]]
UpperOf == [c \in Range(LowerChars) |->
               UpperChars[CHOOSE i \in DOMAIN LowerChars : LowerChars[i] = c]]

\* str.lower() on one character
lower_char(c) == IF c \in DOMAIN LowerOf THEN LowerOf[c] ELSE c

\* str.lower()
lower(s) == [i \in DOMAIN s |-> lower_char(s[i])]

\* str.upper() on one character
upper_char(c) == IF c \in DOMAIN UpperOf THEN UpperOf[c] ELSE c

\* str.upper()
upper(s) == [i \in DOMAIN s |-> upper_char(s[i])]

\* the regular expression class \w
WordChars == Range(UpperChars) \cup Range(LowerChars) \cup DigitChars \cup {"_"}
IsWordChar(c) == c \in WordChars

\* re.findall(r'\b\w+\b', s): the maximal runs of word characters, in order
RECURSIVE findall_from(_, _, _, _)
findall_from(s, i, run, found) ==
    IF i > Len(s)
    THEN IF run # <<>> THEN Append(found, run) ELSE found
    ELSE IF IsWordChar(s[i])
         THEN findall_from(s, i + 1, Append(run, s[i]), found)
         ELSE findall_from(s, i + 1, <<>>,
                  IF run # <<>> THEN Append(found, run) ELSE found)

findall_words(s) == findall_from(s, 1, <<>>, <<>>)

\* the characters str.strip() removes
Whitespace == {" ", "\t", "\n", "\r", "\f"}

\* str.strip()
RECURSIVE lstrip(_)
lstrip(s) == IF s # <<>> /\ Head(s) \in Whitespace THEN lstrip(Tail(s)) ELSE s

RECURSIVE rstrip(_)
rstrip(s) ==
    IF s # <<>> /\ s[Len(s)] \in Whitespace THEN rstrip(SubSeq(s, 1, Len(s) - 1)) ELSE s

strip(s) == rstrip(lstrip(s))

\* sep.join(parts)
RECURSIVE join(_, _)
join(sep, parts) ==
    IF parts = <<>> THEN <<>>
    ELSE IF Len(parts) = 1 THEN parts[1]
    ELSE parts[1] \o sep \o join(sep, Tail(parts))

\* `sub in s` for two str
Contains(s, sub) ==
    \E i \in 0..(Len(s) - Len(sub)) :
        \A k \in 1..Len(sub) : s[i + k] = sub[k]

----------------------------------------------------------------------------
(* Python dict primitives: a dict is a sequence of entries in insertion    *)
(* order                                                                   *)

Keys(d) == {d[i].key : i \in DOMAIN d}

\* d[k] for a key that is present
Get(d, k) == d[CHOOSE i \in DOMAIN d : d[i].key = k].value

\* d[k] = v: overwrite in place, or append
Put(d, k, v) ==
    IF k \in Keys(d)
    THEN [i \in DOMAIN d |-> IF d[i].key = k THEN [key |-> k, value |-> v] ELSE d[i]]
    ELSE Append(d, [key |-> k, value |-> v])

\* the sequences that enumerate a finite set once each (a set's iteration order)
Orders(S) ==
    { o \in [1..Cardinality(S) -> S] : \A i, j \in DOMAIN o : i # j => o[i] # o[j] }

----------------------------------------------------------------------------
(* SchemaParser state accessors *)

TableNames == {tables[i].name : i \in DOMAIN tables}

\* self.tables[name]['columns'] for a name that is a key
ColumnsOf(name) == tables[CHOOSE i \in DOMAIN tables : tables[i].name = name].columns

----------------------------------------------------------------------------
(* SchemaParser.search_schema *)

\* Mutation of query_terms: the query is not lowercased
query_terms_as_typed(query) == Range(findall_words(query))

\* query_terms = set(re.findall(r'\b\w+\b', query.lower()))
query_terms(query) == Range(findall_words(lower(query)))

\* Mutation of name_in_terms: the name is compared in its own casing
name_in_terms_exact(name, terms) == name \in terms

\* table_name.lower() in query_terms / column['name'].lower() in query_terms
name_in_terms(name, terms) == lower(name) \in terms

\* the columns of a table whose lowercased name is a query term
relevant_columns_list(columns, terms) ==
    SelectSeq(columns, LAMBDA column : name_in_terms(column.name, terms))

\* "Find relevant tables and columns": the loop over self.tables.items()
RECURSIVE direct_matching_from(_, _, _)
direct_matching_from(i, terms, relevant_tables) ==
    IF i > Len(tables) THEN relevant_tables
    ELSE LET table_name == tables[i].name
             columns == tables[i].columns
         IN  IF name_in_terms(table_name, terms)
             THEN direct_matching_from(i + 1, terms,
                      Put(relevant_tables, table_name, columns))
             ELSE IF relevant_columns_list(columns, terms) # <<>>
             THEN direct_matching_from(i + 1, terms,
                      Put(relevant_tables, table_name,
                          relevant_columns_list(columns, terms)))
             ELSE direct_matching_from(i + 1, terms, relevant_tables)

direct_matching(terms) == direct_matching_from(1, terms, <<>>)

semantic_matches ==
    << [key |-> <<"e","m","p","l","o","y","e","e">>,
        values |-> <<<<"e","m","p","l","o","y","e","e","s">>,
                     <<"s","t","a","f","f">>,
                     <<"p","e","r","s","o","n","n","e","l">>>>],
       [key |-> <<"d","e","p","a","r","t","m","e","n","t">>,
        values |-> <<<<"d","e","p","a","r","t","m","e","n","t","s">>,
                     <<"d","i","v","i","s","i","o","n","s">>,
                     <<"t","e","a","m","s">>>>],
       [key |-> <<"s","a","l","a","r","y">>,
        values |-> <<<<"c","o","m","p","e","n","s","a","t","i","o","n">>,
                     <<"p","a","y">>,
                     <<"w","a","g","e">>>>],
       [key |-> <<"s","a","l","e">>,
        values |-> <<<<"s","a","l","e","s">>,
                     <<"r","e","v","e","n","u","e">>,
                     <<"t","r","a","n","s","a","c","t","i","o","n">>>>],
       [key |-> <<"p","r","o","d","u","c","t">>,
        values |-> <<<<"p","r","o","d","u","c","t","s">>,
                     <<"i","t","e","m","s">>,
                     <<"g","o","o","d","s">>>>],
       [key |-> <<"c","u","s","t","o","m","e","r">>,
        values |-> <<<<"c","u","s","t","o","m","e","r","s">>,
                     <<"c","l","i","e","n","t","s">>,
                     <<"b","u","y","e","r","s">>>>] >>

\* if term in values or key == term
term_selects(term, group) == term \in Range(group.values) \/ group.key = term

\* if key in table_name.lower()
table_matches_key(table_name, group) == Contains(lower(table_name), group.key)

\* the innermost loop of the semantic step: every table whose name matches
RECURSIVE add_semantic_tables(_, _, _)
add_semantic_tables(i, group, relevant_tables) ==
    IF i > Len(tables) THEN relevant_tables
    ELSE IF table_matches_key(tables[i].name, group)
         THEN add_semantic_tables(i + 1, group,
                  Put(relevant_tables, tables[i].name, tables[i].columns))
         ELSE add_semantic_tables(i + 1, group, relevant_tables)

\* for term in query_terms: for key, values in semantic_matches.items(): ...
\* term_order is the order in which the set query_terms is iterated
RECURSIVE semantic_from(_, _, _, _)
semantic_from(term_order, ti, gi, relevant_tables) ==
    IF ti > Len(term_order) THEN relevant_tables
    ELSE IF gi > Len(semantic_matches)
         THEN semantic_from(term_order, ti + 1, 1, relevant_tables)
         ELSE IF term_selects(term_order[ti], semantic_matches[gi])
              THEN semantic_from(term_order, ti, gi + 1,
                       add_semantic_tables(1, semantic_matches[gi], relevant_tables))
              ELSE semantic_from(term_order, ti, gi + 1, relevant_tables)

\* "If no direct matches, include tables with semantic similarity"
semantic_matching(term_order, relevant_tables) ==
    IF relevant_tables = <<>>
    THEN semantic_from(term_order, 1, 1, relevant_tables)
    ELSE relevant_tables

\* Mutation of add_related_table: a name that is no key of self.tables is
\* added with no columns instead of raising
add_related_table_default(st, name) ==
    IF st.raised # "" \/ name \in Keys(st.tables) THEN st
    ELSE IF name \notin TableNames THEN [st EXCEPT !.tables = Put(st.tables, name, <<>>)]
    ELSE [st EXCEPT !.tables = Put(st.tables, name, ColumnsOf(name))]

\* relevant_tables[name] = self.tables[name]['columns'] when name is not yet
\* a key; the lookup raises KeyError when name is no key of self.tables
add_related_table(st, name) ==
    IF st.raised # "" \/ name \in Keys(st.tables) THEN st
    ELSE IF name \notin TableNames THEN [st EXCEPT !.raised = "KeyError"]
    ELSE [st EXCEPT !.tables = Put(st.tables, name, ColumnsOf(name))]

\* Mutation of rel_involves: only the source endpoint is looked up
rel_involves_source_only(rel, relevant_tables) ==
    rel.source_table \in Keys(relevant_tables)

\* if rel['source_table'] in relevant_tables or rel['target_table'] in relevant_tables
rel_involves(rel, relevant_tables) ==
    rel.source_table \in Keys(relevant_tables) \/ rel.target_table \in Keys(relevant_tables)

\* "Find relationships involving the relevant tables": the loop over
\* self.relationships, which reads relevant_tables as it grows
RECURSIVE expand_from(_, _)
expand_from(i, st) ==
    IF i > Len(relationships) \/ st.raised # "" THEN st
    ELSE LET rel == relationships[i]
         IN  IF rel_involves(rel, st.tables)
             THEN expand_from(i + 1,
                      add_related_table(
                          add_related_table(
                              [st EXCEPT !.relationships = Append(@, rel)],
                              rel.source_table),
                          rel.target_table))
             ELSE expand_from(i + 1, st)

expand_relationships(relevant_tables) ==
    expand_from(1, [raised |-> "", tables |-> relevant_tables, relationships |-> <<>>])

\* min(3, len(table_names_list))
FallbackCount == 3
\* Mutation of fallback_size: no cap on the fallback subset
fallback_size_all(n) == n

fallback_size(n) == IF n < FallbackCount THEN n ELSE FallbackCount

\* "If still no tables found, return a subset of the schema"
fallback(st) ==
    IF st.raised = "" /\ st.tables = <<>> /\ tables # <<>>
    THEN [st EXCEPT !.tables =
            [i \in 1..fallback_size(Len(tables)) |->
                [key |-> tables[i].name, value |-> tables[i].columns]]]
    ELSE st

\* search_schema(query): [raised, tables, relationships]; raised = "" when
\* the call returns {"tables": ..., "relationships": ...}
search_schema(query, term_order) ==
    fallback(
        expand_relationships(
            semantic_matching(term_order,
                direct_matching(query_terms(query)))))

----------------------------------------------------------------------------
(* String literals of rag_context.py *)

Text ==
    [ SchemaHeader |->
          <<"R","e","l","e","v","a","n","t"," ","D","a","t","a","b","a","s","e"," ","S","c","h","e","m","a",":","\n">>,
      NoRelevantTables |->
          <<"-","-"," ","N","o"," ","r","e","l","e","v","a","n","t"," ","t","a","b","l","e","s"," ","f","o","u","n","d"," ","f","o","r"," ","t","h","e"," ","q","u","e","r","y",".","\n">>,
      TableLine |->
          <<"\n","T","a","b","l","e",":"," ">>,
      Newline |->
          <<"\n">>,
      Description |->
          <<" "," ","D","e","s","c","r","i","p","t","i","o","n",":"," ">>,
      Columns |->
          <<" "," ","C","o","l","u","m","n","s",":","\n">>,
      ColumnItem |->
          <<" "," "," "," ","-"," ">>,
      OpenParen |->
          <<" ","(">>,
      CloseParen |->
          <<")">>,
      Hash |->
          <<" ","#"," ">>,
      NoColumns |->
          <<" "," ","N","o"," ","c","o","l","u","m","n","s"," ","f","o","u","n","d"," ","o","r"," ","s","e","l","e","c","t","e","d"," ","f","o","r"," ","t","h","i","s"," ","t","a","b","l","e",".","\n">>,
      Relationships |->
          <<"\n","R","e","l","a","t","i","o","n","s","h","i","p","s",":","\n">>,
      RelItem |->
          <<" "," ","-"," ">>,
      Dot |->
          <<".">>,
      Arrow |->
          <<" ","-",">"," ">>,
      NoRelationships |->
          <<"\n","-","-"," ","N","o"," ","r","e","l","e","v","a","n","t"," ","r","e","l","a","t","i","o","n","s","h","i","p","s"," ","f","o","u","n","d"," ","f","o","r"," ","t","h","e"," ","s","e","l","e","c","t","e","d"," ","t","a","b","l","e","s",".","\n">>,
      NoStatements |->
          <<"-","-"," ","N","o"," ","s","p","e","c","i","f","i","c"," ","s","t","a","t","e","m","e","n","t","s","/","e","x","a","m","p","l","e","s"," ","r","e","t","r","i","e","v","e","d",".">>,
      NoUsableStatements |->
          <<"-","-"," ","N","o"," ","r","e","l","e","v","a","n","t"," ","s","t","a","t","e","m","e","n","t","s","/","e","x","a","m","p","l","e","s"," ","r","e","t","r","i","e","v","e","d"," ","w","i","t","h"," ","u","s","a","b","l","e"," ","c","o","n","t","e","n","t"," ","o","r"," ","s","t","r","u","c","t","u","r","e",".">>,
      TableDescFor |->
          <<"-","-"," ","R","e","t","r","i","e","v","e","d"," ","T","a","b","l","e"," ","D","e","s","c","r","i","p","t","i","o","n"," ","f","o","r"," ">>,
      ColumnDescFor |->
          <<"-","-"," ","R","e","t","r","i","e","v","e","d"," ","C","o","l","u","m","n"," ","D","e","s","c","r","i","p","t","i","o","n"," ","f","o","r"," ">>,
      ColonNewline |->
          <<":","\n">>,
      ExampleQuery |->
          <<"-","-"," ","R","e","t","r","i","e","v","e","d"," ","E","x","a","m","p","l","e"," ","S","Q","L"," ","Q","u","e","r","y",":","\n">>,
      ContextType |->
          <<"-","-"," ","R","e","t","r","i","e","v","e","d"," ","C","o","n","t","e","x","t"," ","(","t","y","p","e",":"," ">>,
      CloseColonNewline |->
          <<")",":","\n">>,
      Blank2 |->
          <<"\n","\n">>,
      UnknownTable |->
          <<"U","n","k","n","o","w","n"," ","T","a","b","l","e">>,
      UnknownColumn |->
          <<"U","n","k","n","o","w","n"," ","C","o","l","u","m","n">>,
      unknown |->
          <<"u","n","k","n","o","w","n">>,
      table |->
          <<"t","a","b","l","e">>,
      column |->
          <<"c","o","l","u","m","n">>,
      example_query |->
          <<"e","x","a","m","p","l","e","_","q","u","e","r","y">>,
      ErrorSchema |->
          <<"E","r","r","o","r",":"," ","C","o","u","l","d"," ","n","o","t"," ","g","e","n","e","r","a","t","e"," ","s","c","h","e","m","a"," ","c","o","n","t","e","x","t",".">>,
      ErrorStatements |->
          <<"E","r","r","o","r",":"," ","C","o","u","l","d"," ","n","o","t"," ","g","e","n","e","r","a","t","e"," ","s","t","a","t","e","m","e","n","t","s",".">>,
      EmptySchema |->
          <<"D","a","t","a","b","a","s","e"," ","s","c","h","e","m","a"," ","i","s"," ","e","m","p","t","y"," ","o","r"," ","c","o","u","l","d"," ","n","o","t"," ","b","e"," ","l","o","a","d","e","d",".">>,
      DatabaseSchema |->
          <<"D","a","t","a","b","a","s","e"," ","S","c","h","e","m","a",":">>,
      ColumnsHeading |->
          <<" "," ","C","o","l","u","m","n","s",":">>,
      NoColumnsDefined |->
          <<" "," ","N","o"," ","c","o","l","u","m","n","s"," ","d","e","f","i","n","e","d"," ","f","o","r"," ","t","h","i","s"," ","t","a","b","l","e",".">>,
      RelationshipsHeading |->
          <<"\n","R","e","l","a","t","i","o","n","s","h","i","p","s",":">>,
      NoRelationshipsDefined |->
          <<"\n","N","o"," ","r","e","l","a","t","i","o","n","s","h","i","p","s"," ","d","e","f","i","n","e","d",".">>,
      None |->
          <<"N","o","n","e">> ]

\* common_words in _extract_query_terms
common_words ==
    { <<"t","h","e">>,
      <<"a">>,
      <<"a","n">>,
      <<"i","n">>,
      <<"o","n">>,
      <<"a","t">>,
      <<"b","y">>,
      <<"f","o","r">>,
      <<"w","i","t","h">>,
      <<"a","b","o","u","t">>,
      <<"f","r","o","m">>,
      <<"t","o">>,
      <<"o","f">> }


----------------------------------------------------------------------------
(* CSVSchemaLoader accessors *)

\* get_tables(): list(self.tables.values())
get_tables == csv_loader.tables

\* get_table_by_name(name) is not None
has_table_info(name) == \E i \in DOMAIN csv_loader.tables : csv_loader.tables[i].name = name

\* get_table_by_name(name).description, for a name that is a key
table_description(name) ==
    csv_loader.tables[CHOOSE i \in DOMAIN csv_loader.tables :
                          csv_loader.tables[i].name = name].description

\* get_columns_for_table(table_name)
get_columns_for_table(table_name) ==
    SelectSeq(csv_loader.columns, LAMBDA col : col.table_name = table_name)

\* get_foreign_keys()
get_foreign_keys == csv_loader.joins

----------------------------------------------------------------------------
(* RAGContextProvider._search_csv_schema *)

\* query_terms = {term.lower() for term in re.findall(r'\b\w+\b', query)}
csv_query_terms(query) == {lower(term) : term \in Range(findall_words(query))}

\* if col_name_lower in query_terms or table_name_lower in query_terms
csv_column_selected(col, table_name, terms) ==
    lower(col.column_name) \in terms \/ lower(table_name) \in terms

\* the loop over columns_for_table
RECURSIVE add_csv_columns(_, _, _, _, _)
add_csv_columns(columns_for_table, i, table_name, terms, relevant_tables_data) ==
    IF i > Len(columns_for_table) THEN relevant_tables_data
    ELSE LET col_info == columns_for_table[i]
             data == IF table_name \in Keys(relevant_tables_data)
                     THEN relevant_tables_data
                     ELSE Put(relevant_tables_data, table_name, <<>>)
             found_col == \E c \in Range(Get(data, table_name)) :
                              c.name = col_info.column_name
         IN  IF csv_column_selected(col_info, table_name, terms)
             THEN add_csv_columns(columns_for_table, i + 1, table_name, terms,
                      IF found_col THEN data
                      ELSE Put(data, table_name,
                               Append(Get(data, table_name),
                                      [name |-> col_info.column_name,
                                       type |-> col_info.data_type,
                                       description |-> col_info.description])))
             ELSE add_csv_columns(columns_for_table, i + 1, table_name, terms,
                      relevant_tables_data)

\* the loop over self.csv_loader.get_tables()
RECURSIVE csv_tables_from(_, _, _)
csv_tables_from(i, terms, relevant_tables_data) ==
    IF i > Len(get_tables) THEN relevant_tables_data
    ELSE LET table_info == get_tables[i]
             named == IF lower(table_info.name) \in terms
                         /\ table_info.name \notin Keys(relevant_tables_data)
                      THEN Put(relevant_tables_data, table_info.name, <<>>)
                      ELSE relevant_tables_data
         IN  csv_tables_from(i + 1, terms,
                 add_csv_columns(get_columns_for_table(table_info.name), 1,
                                 table_info.name, terms, named))

\* Mutation of csv_relevant_relationships: a join is kept when either of its
\* tables was identified
csv_relevant_relationships_either(all_identified_table_names) ==
    LET kept == SelectSeq(get_foreign_keys, LAMBDA join_info :
                    \/ join_info.primary_table_name \in all_identified_table_names
                    \/ join_info.foreign_table_name \in all_identified_table_names)
    IN  [i \in DOMAIN kept |->
            [source_table |-> kept[i].primary_table_name,
             source_column |-> kept[i].primary_table_column,
             target_table |-> kept[i].foreign_table_name,
             target_column |-> kept[i].foreign_table_column,
             description |-> kept[i].join_description]]

\* "Filter relationships based on identified tables"
csv_relevant_relationships(all_identified_table_names) ==
    LET kept == SelectSeq(get_foreign_keys, LAMBDA join_info :
                    /\ join_info.primary_table_name \in all_identified_table_names
                    /\ join_info.foreign_table_name \in all_identified_table_names)
    IN  [i \in DOMAIN kept |->
            [source_table |-> kept[i].primary_table_name,
             source_column |-> kept[i].primary_table_column,
             target_table |-> kept[i].foreign_table_name,
             target_column |-> kept[i].foreign_table_column,
             description |-> kept[i].join_description]]

_search_csv_schema(query) ==
    LET relevant_tables_data == csv_tables_from(1, csv_query_terms(query), <<>>)
    IN  [tables |-> relevant_tables_data,
         relationships |-> csv_relevant_relationships(Keys(relevant_tables_data))]

----------------------------------------------------------------------------
(* RAGContextProvider._format_relevant_schema *)

\* col_data.get('description') is truthy
has_description(d) == "description" \in DOMAIN d /\ d.description # <<>>

format_column_line(col_data) ==
    Text.ColumnItem \o col_data.name \o Text.OpenParen \o col_data.type \o Text.CloseParen
    \o (IF has_description(col_data) THEN Text.Hash \o col_data.description ELSE <<>>)
    \o Text.Newline

format_table_block(table_name, columns) ==
    Text.TableLine \o table_name \o Text.Newline
    \o (IF has_table_info(table_name) /\ table_description(table_name) # <<>>
        THEN Text.Description \o table_description(table_name) \o Text.Newline
        ELSE <<>>)
    \o (IF columns # <<>>
        THEN Text.Columns \o join(<<>>, [i \in DOMAIN columns |-> format_column_line(columns[i])])
        ELSE Text.NoColumns)

format_relationship_line(rel) ==
    Text.RelItem \o rel.source_table \o Text.Dot \o rel.source_column
    \o Text.Arrow \o rel.target_table \o Text.Dot \o rel.target_column
    \o (IF has_description(rel) THEN Text.Hash \o rel.description ELSE <<>>)
    \o Text.Newline

\* Mutation of _format_relevant_schema: nothing is written for an empty table map
_format_relevant_schema_silent(relevant_schema_data) ==
    LET tables_data == relevant_schema_data.tables
        relationships_data == relevant_schema_data.relationships
    IN  Text.SchemaHeader
        \o join(<<>>, [i \in DOMAIN tables_data |->
                         format_table_block(tables_data[i].key, tables_data[i].value)])
        \o (IF relationships_data # <<>>
            THEN Text.Relationships
                 \o join(<<>>, [i \in DOMAIN relationships_data |->
                                  format_relationship_line(relationships_data[i])])
            ELSE IF tables_data # <<>> THEN Text.NoRelationships ELSE <<>>)

_format_relevant_schema(relevant_schema_data) ==
    LET tables_data == relevant_schema_data.tables
        relationships_data == relevant_schema_data.relationships
    IN  Text.SchemaHeader
        \o (IF tables_data = <<>> THEN Text.NoRelevantTables ELSE <<>>)
        \o join(<<>>, [i \in DOMAIN tables_data |->
                         format_table_block(tables_data[i].key, tables_data[i].value)])
        \o (IF relationships_data # <<>>
            THEN Text.Relationships
                 \o join(<<>>, [i \in DOMAIN relationships_data |->
                                  format_relationship_line(relationships_data[i])])
            ELSE IF tables_data # <<>> THEN Text.NoRelationships ELSE <<>>)

\* col_data['name'], col_data['type'] and rel['source_table'] ... are
\* subscripts: each raises KeyError when the key is missing
subscripts_present(relevant_schema_data) ==
    /\ \A i \in DOMAIN relevant_schema_data.tables :
          \A j \in DOMAIN relevant_schema_data.tables[i].value :
              {"name", "type"} \subseteq DOMAIN relevant_schema_data.tables[i].value[j]
    /\ \A i \in DOMAIN relevant_schema_data.relationships :
          {"source_table", "source_column", "target_table", "target_column"}
              \subseteq DOMAIN relevant_schema_data.relationships[i]

\* one call of _format_relevant_schema: [raised, text]
format_relevant_schema_call(relevant_schema_data) ==
    IF subscripts_present(relevant_schema_data)
    THEN [raised |-> "", text |-> _format_relevant_schema(relevant_schema_data)]
    ELSE [raised |-> "KeyError", text |-> <<>>]

----------------------------------------------------------------------------
(* RAGContextProvider._format_retrieved_documents                          *)
(* A dynamically typed Python value is tagged: a str, None or a dict.      *)

Str(s) == [tag |-> "str", str |-> s]
None == [tag |-> "none"]
Dict(d) == [tag |-> "dict", dict |-> d]

\* Mutation of dict_get: d.get(k), the default is left out
dict_get_none(d, k, default) == IF k \in Keys(d) THEN Get(d, k) ELSE None

\* d.get(k, default)
dict_get(d, k, default) == IF k \in Keys(d) THEN Get(d, k) ELSE default

\* str(v) inside an f-string
render(v) == IF v.tag = "str" THEN v.str ELSE Text.None

\* Mutation of format_document_part: every type gets the generic label
format_document_part_generic(meta_type, metadata, content) ==
    Text.ContextType \o render(meta_type) \o Text.CloseColonNewline \o content

\* the block appended to formatted_parts for one document with content
format_document_part(meta_type, metadata, content) ==
    IF meta_type = Str(Text.table)
    THEN Text.TableDescFor \o render(dict_get(metadata, "table_name", Str(Text.UnknownTable)))
         \o Text.ColonNewline \o content
    ELSE IF meta_type = Str(Text.column)
    THEN Text.ColumnDescFor \o render(dict_get(metadata, "table_name", Str(Text.UnknownTable)))
         \o Text.Dot \o render(dict_get(metadata, "column_name", Str(Text.UnknownColumn)))
         \o Text.ColonNewline \o content
    ELSE IF meta_type = Str(Text.example_query)
    THEN Text.ExampleQuery \o content
    ELSE Text.ContextType \o render(meta_type) \o Text.CloseColonNewline \o content

\* the loop over retrieved_docs: [raised, parts]
RECURSIVE format_documents_from(_, _, _)
format_documents_from(retrieved_docs, i, formatted_parts) ==
    IF i > Len(retrieved_docs) THEN [raised |-> "", parts |-> formatted_parts]
    ELSE LET doc_item == retrieved_docs[i]
         IN  IF doc_item.tag # "dict"
             THEN format_documents_from(retrieved_docs, i + 1, formatted_parts)
             ELSE LET content_value == dict_get(doc_item.dict, "content", Str(<<>>))
                      raw_metadata == dict_get(doc_item.dict, "metadata", None)
                      metadata == IF raw_metadata.tag = "dict" THEN raw_metadata.dict ELSE <<>>
                      meta_type == dict_get(metadata, "type", Str(Text.unknown))
                  IN  IF content_value.tag # "str"
                      THEN [raised |-> "AttributeError", parts |-> formatted_parts]
                      ELSE IF strip(content_value.str) # <<>>
                      THEN format_documents_from(retrieved_docs, i + 1,
                               Append(formatted_parts,
                                      format_document_part(meta_type, metadata,
                                                           strip(content_value.str))))
                      ELSE format_documents_from(retrieved_docs, i + 1, formatted_parts)

\* Mutation of _format_retrieved_documents: the parts are joined, also when
\* there is none
_format_retrieved_documents_joined(retrieved_docs) ==
    LET r == format_documents_from(retrieved_docs, 1, <<>>)
    IN  IF r.raised # "" THEN [raised |-> r.raised, text |-> <<>>]
        ELSE [raised |-> "", text |-> join(Text.Blank2, r.parts)]

\* [raised, text]; raised = "" when the call returns text
_format_retrieved_documents(retrieved_docs) ==
    IF retrieved_docs = <<>> THEN [raised |-> "", text |-> Text.NoStatements]
    ELSE LET r == format_documents_from(retrieved_docs, 1, <<>>)
         IN  IF r.raised # "" THEN [raised |-> r.raised, text |-> <<>>]
             ELSE IF r.parts = <<>> THEN [raised |-> "", text |-> Text.NoUsableStatements]
             ELSE [raised |-> "", text |-> join(Text.Blank2, r.parts)]

----------------------------------------------------------------------------
(* RAGContextProvider.get_relevant_context *)

\* _extract_query_terms(query)
_extract_query_terms(query) ==
    LET found == findall_words(query)
        kept == SelectSeq(found, LAMBDA term :
                    lower(term) \notin common_words /\ Len(term) > 2)
    IN  [i \in DOMAIN kept |-> lower(kept[i])]

\* _get_full_schema_from_csv(), kept in self.full_schema at construction
full_schema_table_lines(table_info) ==
    LET columns == get_columns_for_table(table_info.name)
    IN  <<Text.TableLine \o table_info.name>>
        \o (IF table_info.description # <<>>
            THEN <<Text.Description \o table_info.description>> ELSE <<>>)
        \o (IF columns # <<>>
            THEN <<Text.ColumnsHeading>>
                 \o [i \in DOMAIN columns |->
                        Text.ColumnItem \o columns[i].column_name \o Text.OpenParen
                        \o columns[i].data_type \o Text.CloseParen
                        \o (IF columns[i].description # <<>>
                            THEN Text.Hash \o columns[i].description ELSE <<>>)]
            ELSE <<Text.NoColumnsDefined>>)

RECURSIVE full_schema_tables_from(_)
full_schema_tables_from(i) ==
    IF i > Len(get_tables) THEN <<>>
    ELSE full_schema_table_lines(get_tables[i]) \o full_schema_tables_from(i + 1)

_get_full_schema_from_csv ==
    IF get_tables = <<>> THEN Text.EmptySchema
    ELSE join(Text.Newline,
             <<Text.DatabaseSchema>>
             \o full_schema_tables_from(1)
             \o (IF get_foreign_keys # <<>>
                 THEN <<Text.RelationshipsHeading>>
                      \o [i \in DOMAIN get_foreign_keys |->
                             Text.RelItem \o get_foreign_keys[i].primary_table_name \o Text.Dot
                             \o get_foreign_keys[i].primary_table_column \o Text.Arrow
                             \o get_foreign_keys[i].foreign_table_name \o Text.Dot
                             \o get_foreign_keys[i].foreign_table_column]
                 ELSE <<Text.NoRelationshipsDefined>>))

\* Mutation of context_dictionary: the catch-all handler keeps the query terms
context_dictionary_terms(query, relevant_schema_data, statement_context) ==
    [relevant_schema |-> IF statement_context.raised # "" THEN Text.ErrorSchema
                         ELSE _format_relevant_schema(relevant_schema_data),
     relevant_statements |-> IF statement_context.raised # "" THEN Text.ErrorStatements
                             ELSE statement_context.text,
     full_schema |-> _get_full_schema_from_csv,
     relevant_tables |-> IF statement_context.raised # "" THEN <<>>
                         ELSE [i \in DOMAIN relevant_schema_data.tables |->
                                  relevant_schema_data.tables[i].key],
     query_terms |-> _extract_query_terms(query)]

\* the dictionary get_relevant_context returns: final_context, or the
\* "minimal, safe dictionary" of the catch-all handler when a step raised
context_dictionary(query, relevant_schema_data, statement_context) ==
    IF statement_context.raised # ""
    THEN [relevant_schema |-> Text.ErrorSchema,
          relevant_statements |-> Text.ErrorStatements,
          full_schema |-> _get_full_schema_from_csv,
          relevant_tables |-> <<>>,
          query_terms |-> <<>>]
    ELSE [relevant_schema |-> _format_relevant_schema(relevant_schema_data),
          relevant_statements |-> statement_context.text,
          full_schema |-> _get_full_schema_from_csv,
          relevant_tables |-> [i \in DOMAIN relevant_schema_data.tables |->
                                  relevant_schema_data.tables[i].key],
          query_terms |-> _extract_query_terms(query)]

\* retrieval is what retrieve_relevant_documents does on this call:
\* [raised, docs]
retrieved_docs(retrieval) ==
    IF query_retriever = "ready" /\ retrieval.raised = "" THEN retrieval.docs ELSE <<>>

get_relevant_context(query, retrieval) ==
    context_dictionary(query,
                       _search_csv_schema(query),
                       _format_retrieved_documents(retrieved_docs(retrieval)))

----------------------------------------------------------------------------
(* CSVSchemaLoader construction. A file is [exists, records]; a record is  *)
(* the dict csv.DictReader makes of one row, with None under the fields    *)
(* of a row shorter than the header.                                       *)

\* _read_csv(file_name): [raised, records]
_read_csv(file) ==
    IF ~file.exists THEN [raised |-> "FileNotFoundError", records |-> <<>>]
    ELSE [raised |-> "", records |-> file.records]

\* rec.get(key, '') is a str for every key read, so that .strip() can be called
strips(records, keys) ==
    \A i \in DOMAIN records : \A k \in keys :
        dict_get(records[i], k, Str(<<>>)).tag = "str"

\* rec.get(key, '').strip()
text_of(rec, key) == strip(dict_get(rec, key, Str(<<>>)).str)

\* _load_tables(): [raised, tables]; self.tables[table.name] = table keeps
\* the place of a name already present
_load_tables(file) ==
    LET read == _read_csv(file)
        RECURSIVE put_from(_, _)
        put_from(i, loaded) ==
            IF i > Len(read.records) THEN loaded
            ELSE LET table == [name |-> text_of(read.records[i], "table_name"),
                               description |-> text_of(read.records[i], "Description")]
                 IN  IF table.name = <<>> THEN put_from(i + 1, loaded)
                     ELSE IF \E j \in DOMAIN loaded : loaded[j].name = table.name
                     THEN put_from(i + 1,
                              [j \in DOMAIN loaded |->
                                  IF loaded[j].name = table.name THEN table ELSE loaded[j]])
                     ELSE put_from(i + 1, Append(loaded, table))
    IN  IF read.raised # "" THEN [raised |-> read.raised, items |-> <<>>]
        ELSE IF ~strips(read.records, {"table_name", "Description"})
        THEN [raised |-> "AttributeError", items |-> <<>>]
        ELSE [raised |-> "", items |-> put_from(1, <<>>)]

\* _load_columns(): [raised, columns]
_load_columns(file) ==
    LET read == _read_csv(file)
        columns == [i \in DOMAIN read.records |->
                       [table_name |-> text_of(read.records[i], "Table_name"),
                        column_name |-> text_of(read.records[i], "column_name"),
                        data_type |-> text_of(read.records[i], "SQL_FORMAT"),
                        description |-> text_of(read.records[i], "Description (a very descriptive one)")]]
    IN  IF read.raised # "" THEN [raised |-> read.raised, items |-> <<>>]
        ELSE IF ~strips(read.records, {"Table_name", "column_name", "SQL_FORMAT", "Description (a very descriptive one)"})
        THEN [raised |-> "AttributeError", items |-> <<>>]
        ELSE [raised |-> "",
              items |-> SelectSeq(columns, LAMBDA column :
                            /\ column.table_name # <<>>
                            /\ column.column_name # <<>>
                            /\ column.data_type # <<>>)]

\* _load_joins(): [raised, joins]
_load_joins(file) ==
    LET read == _read_csv(file)
        joins == [i \in DOMAIN read.records |->
                     [primary_table_name |-> text_of(read.records[i], "Primary_Table_Name"),
                      primary_table_column |-> text_of(read.records[i], "Primary_Table_Column"),
                      foreign_table_name |-> text_of(read.records[i], "Foreign_Table_Name"),
                      foreign_table_column |-> text_of(read.records[i], "Foreign_Table_Column"),
                      join_description |-> text_of(read.records[i], "Join_Description")]]
    IN  IF read.raised # "" THEN [raised |-> read.raised, items |-> <<>>]
        ELSE IF ~strips(read.records, {"Primary_Table_Name", "Primary_Table_Column",
                                       "Foreign_Table_Name", "Foreign_Table_Column",
                                       "Join_Description"})
        THEN [raised |-> "AttributeError", items |-> <<>>]
        ELSE [raised |-> "",
              items |-> SelectSeq(joins, LAMBDA join_info :
                            /\ join_info.primary_table_name # <<>>
                            /\ join_info.primary_table_column # <<>>
                            /\ join_info.foreign_table_name # <<>>
                            /\ join_info.foreign_table_column # <<>>)]

\* CSVSchemaLoader(data_folder_path): [raised, loader]; the three files are
\* loaded in turn and the first exception ends the construction
CSVSchemaLoader(files) ==
    IF _load_tables(files.tables).raised # ""
    THEN [raised |-> _load_tables(files.tables).raised]
    ELSE IF _load_columns(files.columns).raised # ""
    THEN [raised |-> _load_columns(files.columns).raised]
    ELSE IF _load_joins(files.joins).raised # ""
    THEN [raised |-> _load_joins(files.joins).raised]
    ELSE [raised |-> "",
          loader |-> [tables |-> _load_tables(files.tables).items,
                      columns |-> _load_columns(files.columns).items,
                      joins |-> _load_joins(files.joins).items]]

----------------------------------------------------------------------------
(* The schemas, queries and retrieved documents the model draws from *)

\* Table, with its columns, as both schema sources describe it
Catalogue ==
    << [name |-> <<"A">>, description |-> <<>>,
        columns |-> << [name |-> <<"i","d">>, type |-> <<"I","N","T">>, description |-> <<>>] >>],
       [name |-> <<"B">>, description |-> <<>>,
        columns |-> << [name |-> <<"i","d">>, type |-> <<"I","N","T">>, description |-> <<>>],
                       [name |-> <<"a","_","i","d">>, type |-> <<"I","N","T">>,
                        description |-> <<"o","w","n","e","r">>] >>],
       [name |-> <<"C">>, description |-> <<>>,
        columns |-> << [name |-> <<"i","d">>, type |-> <<"I","N","T">>, description |-> <<>>],
                       [name |-> <<"b","_","i","d">>, type |-> <<"I","N","T">>, description |-> <<>>] >>],
       [name |-> <<"S","t","a","f","f">>,
        description |-> <<"P","e","o","p","l","e"," ","o","n"," ","t","h","e"," ",
                          "p","a","y","r","o","l","l">>,
        columns |-> << [name |-> <<"N","a","m","e">>, type |-> <<"V","A","R","C","H","A","R","(","5","0",")">>,
                        description |-> <<>>] >>],
       [name |-> <<"E","m","p","l","o","y","e","e","s">>, description |-> <<>>,
        columns |-> << [name |-> <<"e","m","p","_","i","d">>, type |-> <<"I","N","T">>,
                        description |-> <<>>] >>] >>

N_A == <<"A">>
N_B == <<"B">>
N_C == <<"C">>

R_AB ==
    [source_table |-> N_A, source_column |-> <<"i","d">>,
     target_table |-> N_B, target_column |-> <<"a","_","i","d">>]
R_BC ==
    [source_table |-> N_B, source_column |-> <<"i","d">>,
     target_table |-> N_C, target_column |-> <<"b","_","i","d">>]

\* A.id -> B.a_id and B.id -> C.b_id
RelPool == {R_AB, R_BC}

\* the strictly increasing and the strictly decreasing index sequences
IndexSeqs(n, maxLen) ==
    UNION { { ix \in [1..k -> 1..n] :
                \/ \A i, j \in 1..k : i < j => ix[i] < ix[j]
                \/ \A i, j \in 1..k : i < j => ix[i] > ix[j] } : k \in 0..maxLen }

IncreasingSeqs(n, maxLen) ==
    UNION { { ix \in [1..k -> 1..n] : \A i, j \in 1..k : i < j => ix[i] < ix[j] }
            : k \in 0..maxLen }

\* the schemas: up to MaxTables tables of the catalogue, in catalogue order
\* or in the reverse order
Schemas ==
    { [i \in DOMAIN ix |-> Catalogue[ix[i]]] : ix \in IndexSeqs(Len(Catalogue), MaxTables) }

\* the relationship lists: every list of up to MaxRels relationships
RelLists == UNION { [1..k -> RelPool] : k \in 0..MaxRels }

\* what the user types, word by word
QueryWords ==
    << <<"B">>,
       <<"b","_","i","d">>,
       <<"i","d","?">>,
       <<"S","T","A","F","F">>,
       <<"e","m","p","l","o","y","e","e">>,
       <<"x","y","z">> >>

\* the queries: up to MaxQueryWords of the words, separated by blanks
Queries ==
    { join(<<" ">>, [i \in DOMAIN ix |-> QueryWords[ix[i]]])
        : ix \in IncreasingSeqs(Len(QueryWords), MaxQueryWords) }

Sessions == {1, 2}

\* documents as QueryRetriever.retrieve_relevant_documents returns them
DocTable ==
    Dict(<< [key |-> "content",
             value |-> Str(<<"T","a","b","l","e"," ","A"," ","h","o","l","d","s">>)],
            [key |-> "metadata",
             value |-> Dict(<< [key |-> "type", value |-> Str(Text.table)],
                               [key |-> "table_name", value |-> Str(<<"A">>)] >>)] >>)
DocBlank ==
    Dict(<< [key |-> "content", value |-> Str(<<" "," "," ">>)],
            [key |-> "metadata",
             value |-> Dict(<< [key |-> "type", value |-> Str(Text.example_query)] >>)] >>)
DocColumn ==
    Dict(<< [key |-> "content",
             value |-> Str(<<"a","_","i","d"," ","o","f"," ","B">>)],
            [key |-> "metadata",
             value |-> Dict(<< [key |-> "type", value |-> Str(Text.column)] >>)] >>)

\* the documents a list handed to _format_retrieved_documents is made of: the
\* three above, an example query, a type that is none of the three, metadata
\* without a type, no metadata, metadata that is None, no content, an item
\* that is no dict, and content that is None
DocPool ==
    << DocTable,
       DocBlank,
       DocColumn,
       Dict(<< [key |-> "content", value |-> Str(<<"S","E","L","E","C","T"," ","1">>)],
               [key |-> "metadata",
                value |-> Dict(<< [key |-> "type", value |-> Str(Text.example_query)] >>)] >>),
       Dict(<< [key |-> "content", value |-> Str(<<" ","a"," ","n","o","t","e","\n">>)],
               [key |-> "metadata",
                value |-> Dict(<< [key |-> "type", value |-> Str(<<"n","o","t","e">>)] >>)] >>),
       Dict(<< [key |-> "content", value |-> Str(<<"u","n","t","y","p","e","d">>)],
               [key |-> "metadata",
                value |-> Dict(<< [key |-> "table_name", value |-> Str(<<"A">>)] >>)] >>),
       Dict(<< [key |-> "content", value |-> Str(<<"b","a","r","e">>)] >>),
       Dict(<< [key |-> "content", value |-> Str(<<"v","o","i","d">>)],
               [key |-> "metadata", value |-> None] >>),
       Dict(<< [key |-> "metadata",
                value |-> Dict(<< [key |-> "type", value |-> Str(Text.table)] >>)] >>),
       Str(<<"t","e","x","t">>),
       Dict(<< [key |-> "content", value |-> None],
               [key |-> "metadata",
                value |-> Dict(<< [key |-> "type", value |-> Str(Text.table)] >>)] >>) >>

\* what one call of retrieve_relevant_documents does: it raises, or it
\* returns a list of documents (the last one holds a document whose
\* content is None)
Retrievals ==
    { [raised |-> "Exception", docs |-> <<>>],
      [raised |-> "", docs |-> <<>>],
      [raised |-> "", docs |-> <<DocTable>>],
      [raised |-> "", docs |-> <<DocBlank, DocColumn>>],
      [raised |-> "", docs |-> <<DocPool[Len(DocPool)]>>] }

\* the document lists: up to MaxDocs documents of the pool
DocLists ==
    UNION { { [i \in 1..k |-> DocPool[ix[i]]] : ix \in [1..k -> DOMAIN DocPool] }
            : k \in 0..MaxDocs }

\* a relevant subset whose one column has no 'type'
MalformedSubset ==
    [tables |-> << [key |-> N_A, value |-> << [name |-> <<"i","d">>] >>] >>,
     relationships |-> <<>>]

\* the relevant subsets handed to _format_relevant_schema: the tables of a
\* schema with their columns and a list of relationships
FormatSubsets ==
    { [tables |-> [i \in DOMAIN schema |->
                      [key |-> schema[i].name, value |-> schema[i].columns]],
       relationships |-> rels] : schema \in Schemas, rels \in RelLists }
    \cup {MalformedSubset}

\* the rows of the three CSV files: well-formed rows, a row with an empty
\* field (no table name, no type, no foreign table), and as last row of each
\* pool a row shorter than the header
CsvRows ==
    [tables |->
     << << [key |-> "table_name", value |-> Str(<<"A">>)],
          [key |-> "Description", value |-> Str(<<>>)] >>,
       << [key |-> "table_name", value |-> Str(<<" ","B"," ">>)],
          [key |-> "Description", value |-> Str(<<"o","w","n","e","r">>)] >>,
       << [key |-> "table_name", value |-> Str(<<>>)],
          [key |-> "Description", value |-> Str(<<"n","a","m","e","l","e","s","s">>)] >>,
       << [key |-> "table_name", value |-> Str(<<"C">>)],
          [key |-> "Description", value |-> None] >> >>,
     columns |->
     << << [key |-> "Table_name", value |-> Str(<<"A">>)],
          [key |-> "column_name", value |-> Str(<<"i","d">>)],
          [key |-> "SQL_FORMAT", value |-> Str(<<"I","N","T">>)],
          [key |-> "Description (a very descriptive one)", value |-> Str(<<>>)] >>,
       << [key |-> "Table_name", value |-> Str(<<"B">>)],
          [key |-> "column_name", value |-> Str(<<"a","_","i","d">>)],
          [key |-> "SQL_FORMAT", value |-> Str(<<>>)],
          [key |-> "Description (a very descriptive one)", value |-> Str(<<"t","y","p","e","l","e","s","s">>)] >>,
       << [key |-> "Table_name", value |-> Str(<<"B">>)],
          [key |-> "column_name", value |-> Str(<<"i","d">>)],
          [key |-> "SQL_FORMAT", value |-> None],
          [key |-> "Description (a very descriptive one)", value |-> None] >> >>,
     joins |->
     << << [key |-> "Primary_Table_Name", value |-> Str(<<"A">>)],
          [key |-> "Primary_Table_Column", value |-> Str(<<"i","d">>)],
          [key |-> "Foreign_Table_Name", value |-> Str(<<"B">>)],
          [key |-> "Foreign_Table_Column", value |-> Str(<<"a","_","i","d">>)],
          [key |-> "Join_Description", value |-> Str(<<>>)] >>,
       << [key |-> "Primary_Table_Name", value |-> Str(<<"B">>)],
          [key |-> "Primary_Table_Column", value |-> Str(<<"i","d">>)],
          [key |-> "Foreign_Table_Name", value |-> Str(<<>>)],
          [key |-> "Foreign_Table_Column", value |-> Str(<<"b","_","i","d">>)],
          [key |-> "Join_Description", value |-> Str(<<>>)] >>,
       << [key |-> "Primary_Table_Name", value |-> Str(<<"B">>)],
          [key |-> "Primary_Table_Column", value |-> Str(<<"i","d">>)],
          [key |-> "Foreign_Table_Name", value |-> None],
          [key |-> "Foreign_Table_Column", value |-> None],
          [key |-> "Join_Description", value |-> None] >> >>]

\* one CSV file: missing, or up to MaxRows rows of its pool, in pool order
CsvFile(rows) ==
    {[exists |-> FALSE, records |-> <<>>]}
    \cup { [exists |-> TRUE, records |-> [i \in DOMAIN ix |-> rows[ix[i]]]]
             : ix \in IncreasingSeqs(Len(rows), MaxRows) }

\* table_related_information.csv, column_related_information.csv and
\* join_related_information.csv in the data folder
CsvFolders ==
    [tables : CsvFile(CsvRows.tables), columns : CsvFile(CsvRows.columns),
     joins : CsvFile(CsvRows.joins)]

----------------------------------------------------------------------------
(* Python re: a pattern is a sequence of nodes, matched by backtracking in *)
(* the engine's priority order (re.IGNORECASE | re.MULTILINE)              *)

\* a literal text of the pattern
Lit(chars) == [t |-> "lit", s |-> chars]

\* a character class repeated: + and * are many, ? is not; *? is not greedy
Rep(c, min, many, greedy) == [t |-> "rep", c |-> c, min |-> min, many |-> many, greedy |-> greedy]

\* (?:a|b)
Alt(a, b) == [t |-> "alt", a |-> a, b |-> b]

\* (?:body)?
Opt(body) == [t |-> "opt", body |-> body]

\* (body), a capturing group
Cap(name, body) == <<[t |-> "open", name |-> name]>> \o body \o <<[t |-> "close", name |-> name]>>

\* the character classes the patterns use
InClass(c, ch) ==
    CASE c = "s" -> ch \in Whitespace                                  \* \s
      [] c = "w" -> IsWordChar(ch)                                     \* \w, [\w], [\w_]
      [] c = "d" -> ch \in DigitChars                                  \* \d
      [] c = "mg" -> IsWordChar(ch) \/ ch \in Whitespace \/ ch = "."   \* [\w\s\.]
      [] c = "sg" -> IsWordChar(ch) \/ ch = "."                        \* [\w\.]
      [] c = "any" -> TRUE                                             \* [\s\S]
      [] c = "dot" -> ch # "\n"                                        \* .

\* \s+, \s*, \w+, \d+
Spaces1 == <<Rep("s", 1, TRUE, TRUE)>>
Spaces0 == <<Rep("s", 0, TRUE, TRUE)>>
Word1 == <<Rep("w", 1, TRUE, TRUE)>>
Digits1 == <<Rep("d", 1, TRUE, TRUE)>>

\* the number of characters from position i on that are in class c
run_length(s, i, c) ==
    CHOOSE n \in 0..(Len(s) + 1 - i) :
        /\ \A k \in 0..(n - 1) : InClass(c, s[i + k])
        /\ i + n > Len(s) \/ ~InClass(c, s[i + n])

\* the literal text at position i, ignoring case
literal_at(s, i, chars) ==
    /\ i + Len(chars) - 1 <= Len(s)
    /\ \A k \in DOMAIN chars : lower_char(s[i + k - 1]) = lower_char(chars[k])

\* match.group(g) is None for a group that took no part in the match
NoGroups ==
    [g \in {"1", "2", "3", "4", "5", "6", "name_b", "name", "type"} |->
        [set |-> FALSE, start |-> 0, text |-> <<>>]]

\* One way of matching a prefix of the pattern: where it ends, what the
\* groups hold, and the choices made on the way. The engine backtracks, so
\* it finds the way whose choices come first: at a greedy repetition the
\* longer run, at a lazy one the shorter run, at an alternation the left
\* branch, at an optional group the group.
chosen(way, rank) == [way EXCEPT !.prio = Append(@, rank)]

\* the length of a repetition: 0 or 1 times for ?, any number for + and *
longest_run(node, s, i) ==
    IF node.many THEN run_length(s, i, node.c)
    ELSE IF run_length(s, i, node.c) > 0 THEN 1 ELSE 0

\* the ways of a repetition that can run up to `longest` characters
rep_ways(node, way, longest) ==
    {[way EXCEPT !.end = @ + k,
                 !.prio = Append(@, IF node.greedy THEN longest - k ELSE k)]
        : k \in node.min..longest}

\* the ways of matching the nodes lo..hi of a pattern after each of `ways`
RECURSIVE run_range(_, _, _, _, _)

\* the ways of matching one node after one way
step(node, s, way) ==
    CASE node.t = "lit" ->
            IF literal_at(s, way.end, node.s)
            THEN {[way EXCEPT !.end = @ + Len(node.s)]} ELSE {}
      [] node.t = "rep" -> rep_ways(node, way, longest_run(node, s, way.end))
      [] node.t = "alt" ->
            run_range(node.a, 1, Len(node.a), s, {chosen(way, 0)})
            \cup run_range(node.b, 1, Len(node.b), s, {chosen(way, 1)})
      [] node.t = "opt" ->
            run_range(node.body, 1, Len(node.body), s, {chosen(way, 0)})
            \cup {chosen(way, 1)}
      [] node.t = "open" ->
            {[way EXCEPT !.groups[node.name] =
                [set |-> FALSE, start |-> way.end, text |-> <<>>]]}
      [] node.t = "close" ->
            {[way EXCEPT !.groups[node.name] =
                [set |-> TRUE, start |-> @.start,
                 text |-> SubSeq(s, @.start, way.end - 1)]]}
      [] node.t = "bol" -> IF way.end = 1 \/ s[way.end - 1] = "\n" THEN {way} ELSE {}
      [] node.t = "eol" ->
            IF way.end = Len(s) + 1 \/ s[way.end] = "\n" THEN {way} ELSE {}

\* the ways of matching one node after each of `ways`
advance(node, s, ways) == UNION {step(node, s, way) : way \in ways}

run_range(p, lo, hi, s, ways) ==
    IF lo > hi \/ ways = {} THEN ways
    ELSE IF lo = hi THEN advance(p[lo], s, ways)
    ELSE run_range(p, ((lo + hi) \div 2) + 1, hi, s,
                   run_range(p, lo, (lo + hi) \div 2, s, ways))

\* the least rank at choice j
least_rank(ranks) == CHOOSE r \in ranks : \A other \in ranks : r <= other

ways_of_rank(ways, j, r) == {way \in ways : way.prio[j] = r}

\* the way the engine finds first: the least sequence of choices
RECURSIVE first_way(_, _)
first_way(ways, j) ==
    IF Cardinality(ways) = 1 THEN CHOOSE way \in ways : TRUE
    ELSE first_way(ways_of_rank(ways, j, least_rank({way.prio[j] : way \in ways})), j + 1)

\* the match made of a way that started at position i
match_at(way, i) == [ok |-> TRUE, start |-> i, end |-> way.end, groups |-> way.groups]

\* the match of a set of ways that started at position i
match_of(ways, i) ==
    IF ways = {} THEN [ok |-> FALSE, start |-> 0, end |-> 0, groups |-> NoGroups]
    ELSE match_at(first_way(ways, 1), i)

\* the pattern p matched at position i of s
re_match(p, s, i) ==
    match_of(run_range(p, 1, Len(p), s, {[end |-> i, groups |-> NoGroups, prio |-> <<>>]}), i)

\* the matches of the pattern, one for each position at which it matches
matches_of(p, s) == {m \in {re_match(p, s, i) : i \in 1..(Len(s) + 1)} : m.ok}

\* re.finditer(p, s): the matches from left to right, none overlapping
RECURSIVE finditer_from(_, _)
finditer_next(m, found) ==
    <<m>> \o finditer_from(found, IF m.end = m.start THEN m.start + 1 ELSE m.end)

finditer_from(found, pos) ==
    IF \A m \in found : m.start < pos THEN <<>>
    ELSE finditer_next(
            CHOOSE m \in found :
                m.start >= pos /\ \A other \in found : other.start >= pos => m.start <= other.start,
            found)

finditer(p, s) == finditer_from(matches_of(p, s), 1)

\* match.group(g), with None as the empty text of an unset group
match_group(m, g) == m.groups[g].text

\* match.group(a) or match.group(b)
group_or(m, a, b) ==
    IF m.groups[a].set /\ m.groups[a].text # <<>> THEN m.groups[a].text
    ELSE m.groups[b].text

----------------------------------------------------------------------------
(* SchemaParser._parse_ddl *)

\* capture_name_sg = r'\[?([\w\.]+)\]?'
capture_name_sg(g) ==
    <<Opt(<<Lit(<<"[">>)>>)>> \o Cap(g, <<Rep("sg", 1, TRUE, TRUE)>>) \o <<Opt(<<Lit(<<"]">>)>>)>>

\* capture_name_mg = r'(?:\[([\w\s\.]+)\]|([\w\s\.]+))'
capture_name_mg(bracketed, plain) ==
    <<Alt(<<Lit(<<"[">>)>> \o Cap(bracketed, <<Rep("mg", 1, TRUE, TRUE)>>) \o <<Lit(<<"]">>)>>,
          Cap(plain, <<Rep("mg", 1, TRUE, TRUE)>>))>>

\* fr'CREATE TABLE\s+{capture_name_mg}\s*\(([\s\S]*?)\);'
table_pattern ==
    <<Lit(<<"C","R","E","A","T","E"," ","T","A","B","L","E">>)>> \o Spaces1 \o capture_name_mg("1", "2") \o Spaces0
    \o <<Lit(<<"(">>)>> \o Cap("3", <<Rep("any", 0, TRUE, FALSE)>>) \o <<Lit(<<")",";">>)>>

\* \w+(?:\(\s*\d+(?:\s*,\s*\d+)?\s*\))?(?:\s*(?:UNSIGNED|ZEROFILL))?
\* (?:\s*CHARACTER\s+SET\s+[\w]+)?(?:\s*COLLATE\s+[\w_]+)?
column_type_pattern ==
    Word1
    \o <<Opt(<<Lit(<<"(">>)>> \o Spaces0 \o Digits1
             \o <<Opt(Spaces0 \o <<Lit(<<",">>)>> \o Spaces0 \o Digits1)>>
             \o Spaces0 \o <<Lit(<<")">>)>>)>>
    \o <<Opt(Spaces0 \o <<Alt(<<Lit(<<"U","N","S","I","G","N","E","D">>)>>, <<Lit(<<"Z","E","R","O","F","I","L","L">>)>>)>>)>>
    \o <<Opt(Spaces0 \o <<Lit(<<"C","H","A","R","A","C","T","E","R">>)>> \o Spaces1 \o <<Lit(<<"S","E","T">>)>>
             \o Spaces1 \o Word1)>>
    \o <<Opt(Spaces0 \o <<Lit(<<"C","O","L","L","A","T","E">>)>> \o Spaces1 \o Word1)>>

\* ^\s*(?:\[(?P<name_b>[\w\s\.]+)\]|(?P<name>[\w\s\.]+))\s+(?P<type>...)
\* (?:.*?(?:,|\)|$))
new_column_pattern ==
    <<[t |-> "bol"]>> \o Spaces0 \o capture_name_mg("name_b", "name") \o Spaces1
    \o Cap("type", column_type_pattern)
    \o <<Rep("dot", 0, TRUE, FALSE)>>
    \o <<Alt(<<Lit(<<",">>)>>, <<Alt(<<Lit(<<")">>)>>, <<[t |-> "eol"]>>)>>)>>

\* FOREIGN KEY\s*\(\s*{capture_name_sg}\s*\)\s*REFERENCES\s+{capture_name_mg}
\* \s*\(\s*{capture_name_sg}\s*\)
foreign_key_pattern(source_column, target_b, target, target_column) ==
    <<Lit(<<"F","O","R","E","I","G","N"," ","K","E","Y">>)>> \o Spaces0 \o <<Lit(<<"(">>)>> \o Spaces0
    \o capture_name_sg(source_column) \o Spaces0 \o <<Lit(<<")">>)>> \o Spaces0
    \o <<Lit(<<"R","E","F","E","R","E","N","C","E","S">>)>> \o Spaces1 \o capture_name_mg(target_b, target)
    \o Spaces0 \o <<Lit(<<"(">>)>> \o Spaces0 \o capture_name_sg(target_column)
    \o Spaces0 \o <<Lit(<<")">>)>>

\* CONSTRAINT\s+\[?\w+\]?\s+
constraint_name_pattern ==
    <<Lit(<<"C","O","N","S","T","R","A","I","N","T">>)>> \o Spaces1 \o <<Opt(<<Lit(<<"[">>)>>)>> \o Word1
    \o <<Opt(<<Lit(<<"]">>)>>)>> \o Spaces1

\* fr'CONSTRAINT\s+\[?\w+\]?\s+FOREIGN KEY ... '
inline_fk_pattern == constraint_name_pattern \o foreign_key_pattern("1", "2", "3", "4")

\* fr'ALTER TABLE\s+{capture_name_mg}\s+ADD\s+(?:CONSTRAINT\s+\[?\w+\]?\s+)?FOREIGN KEY ...'
alter_fk_pattern ==
    <<Lit(<<"A","L","T","E","R"," ","T","A","B","L","E">>)>> \o Spaces1 \o capture_name_mg("1", "2") \o Spaces1
    \o <<Lit(<<"A","D","D">>)>> \o Spaces1 \o <<Opt(constraint_name_pattern)>>
    \o foreign_key_pattern("3", "4", "5", "6")

\* the loop over new_column_pattern.finditer(columns_text)
RECURSIVE columns_from(_, _, _)
columns_from(col_matches, i, columns) ==
    IF i > Len(col_matches) THEN columns
    ELSE columns_from(col_matches, i + 1,
            IF group_or(col_matches[i], "name_b", "name") # <<>>
               /\ match_group(col_matches[i], "type") # <<>>
            THEN Append(columns,
                    [name |-> strip(group_or(col_matches[i], "name_b", "name")),
                     type |-> strip(match_group(col_matches[i], "type"))])
            ELSE columns)

\* the loop over the inline foreign keys of one CREATE TABLE body
inline_relationships(table_name, fk_matches) ==
    [i \in DOMAIN fk_matches |->
        [source_table |-> table_name,
         source_column |-> match_group(fk_matches[i], "1"),
         target_table |-> group_or(fk_matches[i], "2", "3"),
         target_column |-> match_group(fk_matches[i], "4")]]

\* self.tables[table_name] = {"columns": columns}
put_table(table_map, table_name, columns) ==
    IF \E i \in DOMAIN table_map : table_map[i].name = table_name
    THEN [i \in DOMAIN table_map |->
             IF table_map[i].name = table_name
             THEN [name |-> table_name, columns |-> columns] ELSE table_map[i]]
    ELSE Append(table_map, [name |-> table_name, columns |-> columns])

\* one CREATE TABLE match: its columns, then its inline foreign keys
parse_table(st, table_name, columns_text) ==
    [tables |-> put_table(st.tables, table_name,
                    columns_from(finditer(new_column_pattern, columns_text), 1, <<>>)),
     relationships |-> st.relationships
        \o inline_relationships(table_name, finditer(inline_fk_pattern, columns_text))]

\* the loop over table_matches
RECURSIVE parse_tables_from(_, _, _)
parse_tables_from(table_matches, i, st) ==
    IF i > Len(table_matches) THEN st
    ELSE parse_tables_from(table_matches, i + 1,
            parse_table(st, group_or(table_matches[i], "1", "2"),
                        match_group(table_matches[i], "3")))

\* the loop over alter_fk_matches
alter_relationships(fk_matches) ==
    [i \in DOMAIN fk_matches |->
        [source_table |-> strip(group_or(fk_matches[i], "1", "2")),
         source_column |-> strip(match_group(fk_matches[i], "3")),
         target_table |-> strip(group_or(fk_matches[i], "4", "5")),
         target_column |-> strip(match_group(fk_matches[i], "6"))]]

\* the tables and the inline relationships, then the ALTER TABLE ones
parse_content(st, ddl_content) ==
    [raised |-> "",
     tables |-> st.tables,
     relationships |-> st.relationships
        \o alter_relationships(finditer(alter_fk_pattern, ddl_content))]

\* Mutation of _parse_ddl: the path is not tested, a missing file reads as empty
_parse_ddl_unchecked(exists, ddl_content) ==
    parse_content(
        parse_tables_from(finditer(table_pattern, ddl_content), 1,
            [tables |-> <<>>, relationships |-> <<>>]),
        ddl_content)

\* _parse_ddl on a file that may not exist
_parse_ddl(exists, ddl_content) ==
    IF ~exists
    THEN [raised |-> "FileNotFoundError", tables |-> <<>>, relationships |-> <<>>]
    ELSE parse_content(
            parse_tables_from(finditer(table_pattern, ddl_content), 1,
                [tables |-> <<>>, relationships |-> <<>>]),
            ddl_content)

----------------------------------------------------------------------------
(* DDL files *)

\* column definitions: <name> <type> [modifiers]
ColumnPool ==
    << [name |-> <<"u","s","e","r","_","i","d">>, type |-> <<"I","N","T">>, modifiers |-> <<"P","R","I","M","A","R","Y"," ","K","E","Y">>],
       [name |-> <<"u","s","e","r","n","a","m","e">>, type |-> <<"V","A","R","C","H","A","R","(","5","0",")">>, modifiers |-> <<>>],
       [name |-> <<"p","r","i","c","e">>, type |-> <<"D","E","C","I","M","A","L","(","1","0",",","2",")">>, modifiers |-> <<"N","O","T"," ","N","U","L","L">>],
       [name |-> <<"q","t","y">>, type |-> <<"I","N","T">>, modifiers |-> <<>>] >>

\* plain, bracketed, and with a schema qualifier
DDLTableNames ==
    { <<"U","s","e","r","s">>,
      <<"[","O","r","d","e","r"," ","I","t","e","m","s","]">>,
      <<"d","b","o",".","U","s","e","r","s">>,
      <<"[","d","b","o",".","U","s","e","r","s","]">> }

S_InlineConstraint == <<"C","O","N","S","T","R","A","I","N","T"," ","f","k","_","u","s","e","r"," ","F","O","R","E","I","G","N"," ","K","E","Y"," ","(","u","s","e","r","_","i","d",")"," ","R","E","F","E","R","E","N","C","E","S"," ","U","s","e","r","s","(","u","s","e","r","_","i","d",")">>
S_AlterStatement ==
    <<"\n","A","L","T","E","R"," ","T","A","B","L","E"," ","O","r","d","e","r","s"," ","A","D","D"," ","C","O","N","S","T","R","A","I","N","T"," ","f","k","_","u","s","e","r"," ","F","O","R","E","I","G","N"," ","K","E","Y"," ","(","u","s","e","r","_","i","d",")"," ","R","E","F","E","R","E","N","C","E","S"," ","U","s","e","r","s"," ","(","u","s","e","r","_","i","d",")",";">>

\* the column lists: up to MaxColumns different columns of the pool
ColumnLists ==
    UNION { { [i \in 1..k |-> ColumnPool[ix[i]]] :
                ix \in { jx \in [1..k -> DOMAIN ColumnPool] :
                            \A i, j \in 1..k : i # j => jx[i] # jx[j] } }
            : k \in 1..MaxColumns }

\* a CREATE TABLE statement on one line or on several lines, with no foreign
\* key, with an inline one, or followed by an ALTER TABLE
Declarations ==
    [name : DDLTableNames, layout : {"line", "lines"}, columns : ColumnLists,
     fk : {"none", "inline", "alter"}]

column_definition(c) ==
    c.name \o <<" ">> \o c.type \o (IF c.modifiers = <<>> THEN <<>> ELSE <<" ">> \o c.modifiers)

body_items(d) ==
    [i \in DOMAIN d.columns |-> column_definition(d.columns[i])]
    \o (IF d.fk = "inline" THEN <<S_InlineConstraint>> ELSE <<>>)

ddl_text(d) ==
    <<"C","R","E","A","T","E"," ","T","A","B","L","E"," ">> \o d.name \o <<" ","(">>
    \o (IF d.layout = "line"
        THEN join(<<","," ">>, body_items(d))
        ELSE <<"\n"," "," "," "," ">> \o join(<<",","\n"," "," "," "," ">>, body_items(d)) \o <<"\n">>)
    \o <<")",";">>
    \o (IF d.fk = "alter" THEN S_AlterStatement ELSE <<>>)

\* the file at ddl_file_path: missing, empty, with an ALTER TABLE statement
\* only, or one of the declarations
DDLFiles ==
    {[exists |-> FALSE, content |-> <<>>], [exists |-> TRUE, content |-> <<>>],
     [exists |-> TRUE, content |-> S_AlterStatement]}
    \cup {[exists |-> TRUE, content |-> ddl_text(d)] : d \in Declarations}

----------------------------------------------------------------------------
(* The state machine *)

\* the CSV triad that describes the same schema
csv_tables_of(schema) ==
    [i \in DOMAIN schema |-> [name |-> schema[i].name, description |-> schema[i].description]]

RECURSIVE csv_columns_of(_)
csv_columns_of(schema) ==
    IF schema = <<>> THEN <<>>
    ELSE [i \in DOMAIN schema[1].columns |->
             [table_name |-> schema[1].name,
              column_name |-> schema[1].columns[i].name,
              data_type |-> schema[1].columns[i].type,
              description |-> schema[1].columns[i].description]]
         \o csv_columns_of(Tail(schema))

csv_joins_of(rels) ==
    [i \in DOMAIN rels |->
        [primary_table_name |-> rels[i].source_table,
         primary_table_column |-> rels[i].source_column,
         foreign_table_name |-> rels[i].target_table,
         foreign_table_column |-> rels[i].target_column,
         join_description |-> <<>>]]

\* the DDL model of the same schema: name -> {"columns": [{name, type}]}
ddl_tables_of(schema) ==
    [i \in DOMAIN schema |->
        [name |-> schema[i].name,
         columns |-> [j \in DOMAIN schema[i].columns |->
                         [name |-> schema[i].columns[j].name,
                          type |-> schema[i].columns[j].type]]]]

----------------------------------------------------------------------------
(* The workflow of graph_builder.py. A GraphState is a record; an Optional *)
(* field holds "None" or its value as a string, a message is [role,        *)
(* content] and a content is the tuple of the parts its f-string joins.    *)
(* What the LLM, the retrieval and the database do in a node is the        *)
(* argument llm (or db) of the node.                                       *)

\* {**state, **changes}
Merged(state, changes) == changes @@ state

\* state["conversation_history"].append({"role": ..., "content": ...})
Appended(state, role, content) ==
    [state EXCEPT !.conversation_history = Append(@, [role |-> role, content |-> content])]

\* state.get("_recursion_count", 0)
recursion_count_of(state) ==
    IF "_recursion_count" \in DOMAIN state THEN state._recursion_count ELSE 0

initialize_state(query) ==
    [original_query |-> query,
     current_query |-> query,
     sql_intent |-> "None",
     intent_explanation |-> "None",
     query_explanation |-> "None",
     user_feedback |-> "None",
     generated_sql |-> "None",
     query_result |-> "None",
     error_message |-> "None",
     _recursion_count |-> 0,
     conversation_history |-> <<[role |-> "user", content |-> <<query>>]>>]

update_state_with_feedback(state, feedback) ==
    Merged(state,
           [user_feedback |-> feedback,
            _recursion_count |-> recursion_count_of(state),
            conversation_history |->
                Append(state.conversation_history,
                       [role |-> "user", content |-> <<"Feedback: ", feedback>>])])

\* Mutation of update_state_with_clarification: the history restarts at the
\* clarification
update_state_with_clarification_restart(state, clarification) ==
    Merged(state, [conversation_history |->
                       <<[role |-> "user", content |-> <<"Clarification: ", clarification>>]>>,
                   current_query |-> clarification,
                   user_feedback |-> "None",
                   _recursion_count |-> recursion_count_of(state)])

update_state_with_clarification(state, clarification) ==
    Merged(state,
           [current_query |-> clarification,
            user_feedback |-> "None",
            _recursion_count |-> recursion_count_of(state),
            conversation_history |->
                Append(state.conversation_history,
                       [role |-> "user", content |-> <<"Clarification: ", clarification>>])])

\* detect_sql_intent_node: get_llm() or llm.invoke raises (llm = "raises"),
\* or the response names SQL_INTENT, NOT_SQL_INTENT or neither
detect_sql_intent_node(state, llm) ==
    IF llm = "raises" THEN [raised |-> "Exception", state |-> state]
    ELSE [raised |-> "",
          state |->
            IF llm = "SQL_INTENT"
            THEN Appended([state EXCEPT !.sql_intent = "True",
                                        !.intent_explanation = "explanation"],
                          "assistant", <<"I can answer this query with SQL.">>)
            ELSE Appended([state EXCEPT !.sql_intent = "False",
                                        !.intent_explanation =
                                            IF llm = "NOT_SQL_INTENT" THEN "explanation"
                                            ELSE "I couldn't determine"],
                          "assistant", <<"I'm not sure if your query is asking for database information.">>)]

\* explain_query_node: get_llm() or get_relevant_schema_context raises before
\* the try (llm = "raises"); inside the try the invocation raises, the
\* response does not parse, or it is explained
explain_query_node(state, llm) ==
    IF llm = "raises" THEN [raised |-> "Exception", state |-> state]
    ELSE [raised |-> "",
          state |->
            IF llm = "invoke_raises"
            THEN Appended([state EXCEPT !.query_explanation = "Attempting to answer"],
                          "assistant",
                          <<"I'll try to answer your question about: ", state.current_query,
                            "(Note: I encountered an issue)">>)
            ELSE IF llm = "unparsed"
            THEN Appended([state EXCEPT !.query_explanation = "I'll try to answer"],
                          "assistant",
                          <<"I understand your query as follows:", "I'll try to answer",
                            state.current_query>>)
            ELSE Appended([state EXCEPT !.query_explanation = "explanation"],
                          "assistant",
                          <<"I understand your query as follows:", "explanation">>)]

\* generate_sql_node: raises before the try (llm = "raises"); inside the try
\* the invocation raises, or the SQL is valid or invalid
generate_sql_node(state, llm) ==
    IF llm = "raises" THEN [raised |-> "Exception", state |-> state]
    ELSE [raised |-> "",
          state |->
            IF llm = "invoke_raises"
            THEN Appended([state EXCEPT !.error_message = "Error generating SQL"],
                          "assistant",
                          <<"I encountered an error while trying to generate SQL">>)
            ELSE IF llm = "valid"
            THEN Appended([state EXCEPT !.generated_sql = "sql_query"],
                          "assistant",
                          <<"Here's the SQL query to answer your question:", "sql_query">>)
            ELSE Appended([state EXCEPT !.error_message = "Generated invalid SQL"],
                          "assistant",
                          <<"I tried to generate SQL but encountered an error", "sql_query">>)]

\* execute_query_node: every path is inside a try and returns the state with
\* one more assistant message; db is "result" when the query ran
execute_query_node(state, db) ==
    [raised |-> "",
     state |->
        IF state.generated_sql # "None" /\ db = "result"
        THEN Merged(state,
                 [query_result |-> "result",
                  error_message |-> "None",
                  conversation_history |->
                      Append(state.conversation_history,
                             [role |-> "assistant", content |-> <<"The query returned">>])])
        ELSE Merged(state,
                 [query_result |-> "None",
                  error_message |-> "Error executing query",
                  conversation_history |->
                      Append(state.conversation_history,
                             [role |-> "assistant",
                              content |-> <<"I encountered an error while executing the query">>])])]

\* the feedback threshold of wait_for_feedback_node and should_continue_to_sql
FeedbackThreshold == 3
\* the recursion threshold of should_continue_to_sql
RecursionThreshold == 5

\* wait_for_feedback_node (the module's and build_graph's are the same code)
wait_for_feedback_node(state) ==
    [raised |-> "",
     state |->
        IF recursion_count_of(state) + 1 > FeedbackThreshold
        THEN Merged(Appended(state, "assistant",
                        <<"I haven't received feedback, but I'll proceed with generating SQL">>),
                    [_recursion_count |-> recursion_count_of(state) + 1,
                     _force_end |-> TRUE,
                     user_feedback |-> "good"])
        ELSE Merged(state, [_recursion_count |-> recursion_count_of(state) + 1])]

wait_for_clarification_node(state) ==
    [raised |-> "",
     state |-> Merged(state, [_recursion_count |-> recursion_count_of(state) + 1])]

\* Mutation of should_continue_to_sql: the wait for feedback is bounded by the
\* recursion threshold
should_continue_to_sql_late(state) ==
    IF recursion_count_of(state) + 1 > RecursionThreshold THEN "generate_sql"
    ELSE IF state.user_feedback = "good" THEN "generate_sql"
    ELSE IF state.user_feedback = "not_good" THEN "wait_for_clarification"
    ELSE IF recursion_count_of(state) + 1 <= RecursionThreshold THEN "wait_for_feedback"
    ELSE "generate_sql"

should_continue_to_sql(state) ==
    IF recursion_count_of(state) + 1 > RecursionThreshold THEN "generate_sql"
    ELSE IF state.user_feedback = "good" THEN "generate_sql"
    ELSE IF state.user_feedback = "not_good" THEN "wait_for_clarification"
    ELSE IF recursion_count_of(state) + 1 <= FeedbackThreshold THEN "wait_for_feedback"
    ELSE "generate_sql"

\* the node a graph runs with what the outside does there
run_node(node, state, outside) ==
    CASE node = "detect_intent" -> detect_sql_intent_node(state, outside)
      [] node = "explain_query" -> explain_query_node(state, outside)
      [] node = "generate_sql" -> generate_sql_node(state, outside)
      [] node = "execute_query" -> execute_query_node(state, outside)
      [] node = "wait_for_feedback" -> wait_for_feedback_node(state)
      [] node = "wait_for_clarification" -> wait_for_clarification_node(state)

\* the edges of build_graph(): the node after `node` in state `state`
graph_edge(node, state) ==
    CASE node \in {"explain_query", "wait_for_feedback"} -> should_continue_to_sql(state)
      [] node = "generate_sql" -> "execute_query"
      [] node = "execute_query" -> "END"
      [] node = "wait_for_clarification" -> "explain_query"

\* Mutation of simple_graph_edge: wait_for_feedback always goes on to
\* generate_sql
simple_graph_edge_unconfirmed(node, state) ==
    CASE node = "detect_intent" ->
            IF state.sql_intent = "True" THEN "explain_query" ELSE "END"
      [] node = "explain_query" -> "wait_for_feedback"
      [] node = "wait_for_feedback" -> "generate_sql"
      [] node = "generate_sql" -> "END"

\* the edges of build_simple_graph()
simple_graph_edge(node, state) ==
    CASE node = "detect_intent" ->
            IF state.sql_intent = "True" THEN "explain_query" ELSE "END"
      [] node = "explain_query" -> "wait_for_feedback"
      [] node = "wait_for_feedback" ->
            IF state.user_feedback = "good"
               \/ ("_force_end" \in DOMAIN state /\ state._force_end)
            THEN "generate_sql" ELSE "END"
      [] node = "generate_sql" -> "END"

\* what the outside can do in a node
NodeOutcomes(node) ==
    CASE node = "detect_intent" -> {"raises", "SQL_INTENT", "NOT_SQL_INTENT", "other"}
      [] node = "explain_query" -> {"raises", "invoke_raises", "unparsed", "explained"}
      [] node = "generate_sql" -> {"raises", "invoke_raises", "valid", "invalid"}
      [] node = "execute_query" -> {"result", "error"}
      [] OTHER -> {"nothing"}

\* one outcome for each node of the simple graph
SimpleOutsides ==
    [detect_intent : NodeOutcomes("detect_intent"),
     explain_query : NodeOutcomes("explain_query"),
     wait_for_feedback : NodeOutcomes("wait_for_feedback"),
     generate_sql : NodeOutcomes("generate_sql")]

\* compiled_simple_graph.invoke(state, {"recursion_limit": limit}): the state
\* at END, or the exception of the node that raised, with the nodes executed
RECURSIVE invoke_from(_, _, _, _, _)
invoke_from(node, state, executed, outside, limit) ==
    IF node = "END" THEN [raised |-> "", state |-> state, executed |-> executed]
    ELSE IF Len(executed) >= limit
    THEN [raised |-> "GraphRecursionError", state |-> state, executed |-> executed]
    ELSE LET r == run_node(node, state, outside[node])
         IN  IF r.raised # ""
             THEN [raised |-> r.raised, state |-> state, executed |-> Append(executed, node)]
             ELSE invoke_from(simple_graph_edge(node, r.state), r.state,
                              Append(executed, node), outside, limit)

invoke(state, outside, limit) == invoke_from("detect_intent", state, <<>>, outside, limit)

----------------------------------------------------------------------------
(* The handlers of handlers.py on st.session_state. messages_shared says   *)
(* that messages is the very list graph_state["conversation_history"]      *)
(* (an assignment shares it, the copying loops do not); debug_info, which  *)
(* no handler reads, is left out. A handler gives [session, executed]: the *)
(* session state it leaves and the graph nodes it ran.                     *)

\* lines 142-145 of process_new_query_simple
awaits_feedback(result) ==
    /\ result.sql_intent = "True"
    /\ result.query_explanation # "None"
    /\ result.user_feedback = "None"

\* the except branch of process_new_query_simple: the fallback response is
\* appended to messages, in place
fallback_response(session) ==
    LET message == [role |-> "assistant",
                    content |-> <<"I encountered an error processing your query.">>]
    IN  [session EXCEPT
            !.messages = Append(@, message),
            !.graph_state =
                IF session.messages_shared
                THEN [@ EXCEPT !.conversation_history = Append(@, message)]
                ELSE @]

process_new_query_simple(session, query, outside) ==
    LET result == invoke(initialize_state(query), outside, 10)
    IN  IF result.raised # ""
        THEN [session |-> fallback_response(session), executed |-> result.executed]
        ELSE [session |->
                [session EXCEPT
                    !.graph_state = result.state,
                    !.messages = result.state.conversation_history,
                    !.messages_shared = TRUE,
                    !.awaiting_feedback = awaits_feedback(result.state)],
              executed |-> result.executed]

\* Mutation of process_feedback_simple: feedback that is not good leaves
\* awaiting_feedback as it was
process_feedback_simple_keeps_flag(session, feedback, llm) ==
    IF session.graph_state = None
    THEN [session |-> session, executed |-> <<>>]
    ELSE LET updated_state == update_state_with_feedback(session.graph_state, feedback)
             final_result == generate_sql_node(updated_state, llm)
         IN  IF feedback = "good"
             THEN [session |->
                     IF final_result.raised = ""
                     THEN [session EXCEPT
                             !.graph_state = final_result.state,
                             !.messages = final_result.state.conversation_history,
                             !.messages_shared = FALSE,
                             !.awaiting_feedback = FALSE]
                     ELSE [session EXCEPT
                             !.graph_state = updated_state,
                             !.messages = updated_state.conversation_history,
                             !.messages_shared = TRUE,
                             !.awaiting_feedback = FALSE],
                   executed |-> <<"generate_sql">>]
             ELSE [session |->
                     [session EXCEPT
                         !.graph_state = updated_state,
                         !.messages = updated_state.conversation_history,
                         !.messages_shared = TRUE,
                         !.awaiting_clarification = TRUE],
                   executed |-> <<>>]

process_feedback_simple(session, feedback, llm) ==
    IF session.graph_state = None
    THEN [session |-> session, executed |-> <<>>]
    ELSE LET updated_state == update_state_with_feedback(session.graph_state, feedback)
             final_result == generate_sql_node(updated_state, llm)
         IN  IF feedback = "good"
             THEN [session |->
                     IF final_result.raised = ""
                     THEN [session EXCEPT
                             !.graph_state = final_result.state,
                             !.messages = final_result.state.conversation_history,
                             !.messages_shared = FALSE,
                             !.awaiting_feedback = FALSE]
                     ELSE [session EXCEPT
                             !.graph_state = updated_state,
                             !.messages = updated_state.conversation_history,
                             !.messages_shared = TRUE,
                             !.awaiting_feedback = FALSE],
                   executed |-> <<"generate_sql">>]
             ELSE [session |->
                     [session EXCEPT
                         !.graph_state = updated_state,
                         !.messages = updated_state.conversation_history,
                         !.messages_shared = TRUE,
                         !.awaiting_feedback = FALSE,
                         !.awaiting_clarification = TRUE],
                   executed |-> <<>>]

process_clarification_simple(session, clarification, llm) ==
    IF session.graph_state = None
    THEN [session |-> session, executed |-> <<>>]
    ELSE LET updated_state ==
                 update_state_with_clarification(session.graph_state, clarification)
             result == explain_query_node(updated_state, llm)
         IN  [session |->
                 IF result.raised = ""
                 THEN [session EXCEPT
                         !.graph_state = result.state,
                         !.messages = result.state.conversation_history,
                         !.messages_shared = FALSE,
                         !.awaiting_feedback = TRUE,
                         !.awaiting_clarification = FALSE]
                 ELSE [session EXCEPT
                         !.graph_state = updated_state,
                         !.messages = updated_state.conversation_history,
                         !.messages_shared = TRUE,
                         !.awaiting_feedback = FALSE,
                         !.awaiting_clarification = FALSE],
               executed |-> <<"explain_query">>]

\* the application layer before any page run: no graph state, no flag, no
\* run, and an empty cache
NoRun ==
    [by |-> <<>>, node |-> "none", executed |-> <<>>, raised |-> "", before |-> None,
     state |-> None]

\* "Reset all graph-related state" of streamlit_app.py
NewSession ==
    [graph_state |-> None, messages |-> <<>>, messages_shared |-> FALSE,
     awaiting_feedback |-> FALSE, awaiting_clarification |-> FALSE]

AppIdle ==
    /\ session_state = NewSession
    /\ graph_run = NoRun
    /\ query_cache = <<>>

NoCall ==
    [op |-> "none", session |-> 0, query |-> <<>>, direct |-> <<>>, matched |-> <<>>,
     result |-> [raised |-> "", tables |-> <<>>, relationships |-> <<>>]]

\* both schema sources loaded from the same schema
Loaded ==
    \E schema \in Schemas, rels \in RelLists :
        /\ tables = ddl_tables_of(schema)
        /\ relationships = rels
        /\ csv_loader = [tables |-> csv_tables_of(schema),
                         columns |-> csv_columns_of(schema),
                         joins |-> csv_joins_of(rels)]

Init ==
    /\ Loaded
    /\ AppIdle
    /\ query_retriever = "none"
    /\ pc = "idle"
    /\ call = NoCall

\* RAGContextProvider(): QueryRetriever came up, or its construction failed
InitContext ==
    /\ Loaded
    /\ AppIdle
    /\ query_retriever \in {"none", "ready"}
    /\ pc = "idle"
    /\ call = NoCall

\* a session calls SchemaParser.search_schema(query); direct and matched are
\* the local relevant_tables as the direct-matching loop and the semantic
\* step leave it
SearchSchema(s, query) ==
    /\ pc = "idle"
    /\ \E term_order \in Orders(query_terms(query)) :
        call' = [op |-> "search_schema", session |-> s, query |-> query,
                 direct |-> direct_matching(query_terms(query)),
                 matched |-> semantic_matching(term_order,
                                 direct_matching(query_terms(query))),
                 result |-> search_schema(query, term_order)]
    /\ pc' = "done"
    /\ UNCHANGED <<tables, relationships, csv_loader, query_retriever,
                 session_state, graph_run, query_cache>>

\* RAGContextProvider._search_csv_schema(query)
SearchCsvSchema(query) ==
    /\ pc = "idle"
    /\ call' = [op |-> "_search_csv_schema", session |-> 0, query |-> query,
                direct |-> <<>>, matched |-> <<>>,
                result |-> _search_csv_schema(query)]
    /\ pc' = "done"
    /\ UNCHANGED <<tables, relationships, csv_loader, query_retriever,
                 session_state, graph_run, query_cache>>

\* RAGContextProvider.get_relevant_context(query)
GetRelevantContext(query, retrieval) ==
    /\ pc = "idle"
    /\ query_retriever = "none" => retrieval = [raised |-> "", docs |-> <<>>]
    /\ call' = [op |-> "get_relevant_context", session |-> 0, query |-> query,
                direct |-> <<>>, matched |-> <<>>, retrieval |-> retrieval,
                result |-> get_relevant_context(query, retrieval)]
    /\ pc' = "done"
    /\ UNCHANGED <<tables, relationships, csv_loader, query_retriever,
                 session_state, graph_run, query_cache>>

\* the caller has taken the result
Return ==
    /\ pc = "done"
    /\ pc' = "idle"
    /\ call' = NoCall
    /\ UNCHANGED <<tables, relationships, csv_loader, query_retriever,
                 session_state, graph_run, query_cache>>

\* the matchers
Next ==
    \/ \E s \in Sessions, query \in Queries : SearchSchema(s, query)
    \/ \E query \in Queries : SearchCsvSchema(query)
    \/ Return

Spec == Init /\ [][Next]_vars

\* the context provider
NextContext ==
    \/ \E query \in Queries, retrieval \in Retrievals : GetRelevantContext(query, retrieval)
    \/ Return

SpecContext == InitContext /\ [][NextContext]_vars

\* SchemaParser(ddl_file_path) is being constructed
InitDDL ==
    /\ AppIdle
    /\ tables = <<>>
    /\ relationships = <<>>
    /\ csv_loader = [tables |-> <<>>, columns |-> <<>>, joins |-> <<>>]
    /\ query_retriever = "none"
    /\ pc = "new"
    /\ \E f \in DDLFiles :
        call = [op |-> "__init__", exists |-> f.exists, ddl_content |-> f.content,
                result |-> [raised |-> "", tables |-> <<>>, relationships |-> <<>>]]

\* SchemaParser.__init__: self.tables = {}, self.relationships = [], then
\* self._parse_ddl(); when it raises there is no parser
ParseDDL ==
    /\ pc = "new"
    /\ call' = [call EXCEPT !.result = _parse_ddl(call.exists, call.ddl_content)]
    /\ tables' = call'.result.tables
    /\ relationships' = call'.result.relationships
    /\ pc' = IF call'.result.raised = "" THEN "done" ELSE "raised"
    /\ UNCHANGED <<csv_loader, query_retriever, session_state, graph_run, query_cache>>

\* the extractor, and the matcher on the model it extracted
NextDDL ==
    \/ ParseDDL
    \/ \E query \in Queries : SearchSchema(1, query)
    \/ Return

SpecDDL == InitDDL /\ [][NextDDL]_vars

\* the schema the formatters run against: at most one table
InitFormat ==
    /\ Loaded
    /\ AppIdle
    /\ Len(tables) <= 1
    /\ query_retriever = "none"
    /\ pc = "idle"
    /\ call = NoCall

\* RAGContextProvider._format_retrieved_documents(retrieved_docs)
FormatRetrievedDocuments(docs) ==
    /\ pc = "idle"
    /\ call' = [op |-> "_format_retrieved_documents", retrieved_docs |-> docs,
                result |-> _format_retrieved_documents(docs)]
    /\ pc' = "done"
    /\ UNCHANGED <<tables, relationships, csv_loader, query_retriever,
                 session_state, graph_run, query_cache>>

\* RAGContextProvider._format_relevant_schema(relevant_schema_data)
FormatRelevantSchema(subset) ==
    /\ pc = "idle"
    /\ call' = [op |-> "_format_relevant_schema", relevant_schema_data |-> subset,
                result |-> format_relevant_schema_call(subset)]
    /\ pc' = "done"
    /\ UNCHANGED <<tables, relationships, csv_loader, query_retriever,
                 session_state, graph_run, query_cache>>

\* the formatters
NextFormat ==
    \/ \E docs \in DocLists : FormatRetrievedDocuments(docs)
    \/ \E subset \in FormatSubsets : FormatRelevantSchema(subset)
    \/ Return

SpecFormat == InitFormat /\ [][NextFormat]_vars

\* RAGContextProvider() is being constructed over a data folder
InitCSV ==
    /\ AppIdle
    /\ tables = <<>>
    /\ relationships = <<>>
    /\ csv_loader = [tables |-> <<>>, columns |-> <<>>, joins |-> <<>>]
    /\ query_retriever = "none"
    /\ pc = "new"
    /\ \E files \in CsvFolders :
          call = [op |-> "RAGContextProvider", files |-> files, result |-> [raised |-> ""]]

\* RAGContextProvider.__init__: self.csv_loader = CSVSchemaLoader(...), outside
\* any try; when it raises there is no provider and no loader
ConstructProvider ==
    /\ pc = "new"
    /\ call' = [call EXCEPT !.result = CSVSchemaLoader(call.files)]
    /\ IF call'.result.raised = ""
       THEN /\ csv_loader' = call'.result.loader
            /\ query_retriever' \in {"none", "ready"}
            /\ pc' = "done"
       ELSE /\ pc' = "raised"
            /\ UNCHANGED <<csv_loader, query_retriever>>
    /\ UNCHANGED <<tables, relationships, session_state, graph_run, query_cache>>

\* the loader, and the search over the schema it loaded
NextCSV ==
    \/ ConstructProvider
    \/ \E query \in Queries : SearchCsvSchema(query)
    \/ Return

SpecCSV == InitCSV /\ [][NextCSV]_vars

----------------------------------------------------------------------------
(* The application layer *)

\* what the user types: a query, a clarification
UserTexts == {"how many employees", "salaries per department"}

\* the application with no schema loaded into the matchers
InitApp ==
    /\ AppIdle
    /\ tables = <<>>
    /\ relationships = <<>>
    /\ csv_loader = [tables |-> <<>>, columns |-> <<>>, joins |-> <<>>]
    /\ query_retriever = "none"
    /\ pc = "idle"
    /\ call = NoCall

\* the chat input of the page, open while no clarification is awaited
ProcessNewQuery(query, outside) ==
    /\ ~session_state.awaiting_clarification
    /\ Len(session_state.messages) < MaxHistory
    /\ LET handled == process_new_query_simple(session_state, query, outside)
       IN  /\ session_state' = handled.session
           /\ graph_run' = [by |-> <<"process_new_query_simple", query>>, node |-> "END",
                            executed |-> handled.executed, raised |-> "",
                            before |-> session_state.graph_state,
                            state |-> handled.session.graph_state]
    /\ UNCHANGED <<tables, relationships, csv_loader, query_retriever, pc, call, query_cache>>

\* the two feedback buttons, shown while feedback is awaited
ProcessFeedback(feedback, llm) ==
    /\ session_state.awaiting_feedback
    /\ Len(session_state.graph_state.conversation_history) + 2 <= MaxHistory
    /\ LET handled == process_feedback_simple(session_state, feedback, llm)
       IN  /\ session_state' = handled.session
           /\ graph_run' = [by |-> <<"process_feedback_simple", feedback>>, node |-> "END",
                            executed |-> handled.executed, raised |-> "",
                            before |-> session_state.graph_state,
                            state |-> handled.session.graph_state]
    /\ UNCHANGED <<tables, relationships, csv_loader, query_retriever, pc, call, query_cache>>

\* the clarification form, shown while clarification is awaited
ProcessClarification(clarification, llm) ==
    /\ session_state.awaiting_clarification
    /\ Len(session_state.graph_state.conversation_history) + 2 <= MaxHistory
    /\ LET handled == process_clarification_simple(session_state, clarification, llm)
       IN  /\ session_state' = handled.session
           /\ graph_run' = [by |-> <<"process_clarification_simple", clarification>>,
                            node |-> "END",
                            executed |-> handled.executed, raised |-> "",
                            before |-> session_state.graph_state,
                            state |-> handled.session.graph_state]
    /\ UNCHANGED <<tables, relationships, csv_loader, query_retriever, pc, call, query_cache>>

\* the "Reset Graph" button
ResetGraph ==
    /\ session_state' = NewSession
    /\ graph_run' = NoRun
    /\ UNCHANGED <<tables, relationships, csv_loader, query_retriever, pc, call, query_cache>>

\* the states a caller hands to a compiled graph: a new state, one that
\* carries feedback, one that has waited for feedback three times
StartStates ==
    UNION { { initialize_state(q),
              update_state_with_feedback(initialize_state(q), "good"),
              update_state_with_feedback(initialize_state(q), "not_good"),
              Merged(initialize_state(q), [_recursion_count |-> FeedbackThreshold]) }
            : q \in UserTexts }

\* build_simple_graph().compile().invoke(state, {"recursion_limit": 10}) by a
\* caller other than the page, before the page is used
InvokeSimpleGraph(state, outside) ==
    /\ session_state = NewSession
    /\ LET result == invoke(state, outside, 10)
       IN  graph_run' = [by |-> <<"build_simple_graph">>,
                         node |-> IF result.raised = "" THEN "END" ELSE "raised",
                         executed |-> result.executed, raised |-> result.raised,
                         before |-> state, state |-> result.state]
    /\ UNCHANGED <<tables, relationships, csv_loader, query_retriever, pc, call,
                   session_state, query_cache>>

\* the page and the simple graph
NextWorkflow ==
    \/ \E query \in UserTexts, outside \in SimpleOutsides : ProcessNewQuery(query, outside)
    \/ \E feedback \in {"good", "not_good"}, llm \in NodeOutcomes("generate_sql") :
          ProcessFeedback(feedback, llm)
    \/ \E clarification \in UserTexts, llm \in NodeOutcomes("explain_query") :
          ProcessClarification(clarification, llm)
    \/ ResetGraph
    \/ \E state \in StartStates, outside \in SimpleOutsides : InvokeSimpleGraph(state, outside)

SpecWorkflow == InitApp /\ [][NextWorkflow]_vars

\* build_graph().compile().invoke(state): the run starts at the entry point
InvokeGraph(state) ==
    /\ graph_run.node \in {"none", "END", "raised"}
    /\ recursion_count_of(state) = 0
    /\ graph_run' = [by |-> <<"build_graph">>, node |-> "explain_query", executed |-> <<>>,
                     raised |-> "", before |-> state, state |-> state]
    /\ UNCHANGED <<tables, relationships, csv_loader, query_retriever, pc, call,
                   session_state, query_cache>>

\* the run executes its next node and follows the edge out of it; a node
\* that raises ends the run
GraphStep(outside) ==
    /\ graph_run.by = <<"build_graph">>
    /\ graph_run.node \notin {"END", "raised"}
    /\ outside \in NodeOutcomes(graph_run.node)
    /\ LET r == run_node(graph_run.node, graph_run.state, outside)
       IN  graph_run' =
             IF r.raised # ""
             THEN [graph_run EXCEPT !.node = "raised", !.raised = r.raised,
                                    !.executed = Append(@, graph_run.node)]
             ELSE [graph_run EXCEPT !.node = graph_edge(graph_run.node, r.state),
                                    !.state = r.state,
                                    !.executed = Append(@, graph_run.node)]
    /\ UNCHANGED <<tables, relationships, csv_loader, query_retriever, pc, call,
                   session_state, query_cache>>

GraphSteps ==
    \E outside \in {"raises", "invoke_raises", "unparsed", "explained", "valid", "invalid",
                    "result", "error", "nothing"} : GraphStep(outside)

\* the full graph
NextGraph ==
    \/ \E state \in StartStates : InvokeGraph(state)
    \/ GraphSteps

\* the executor runs the next node of a run that has not ended
SpecGraph == InitApp /\ [][NextGraph]_vars /\ WF_vars(GraphSteps)

\* a caller makes a new workflow state
InitializeState(query) ==
    /\ graph_run' = [by |-> <<"initialize_state", query>>, node |-> "none",
                     executed |-> <<>>, raised |-> "", before |-> None,
                     state |-> initialize_state(query)]
    /\ UNCHANGED <<tables, relationships, csv_loader, query_retriever, pc, call,
                   session_state, query_cache>>

\* a caller applies a node function to the workflow state it holds
ApplyNode(node, outside) ==
    /\ graph_run.state # None
    /\ Len(graph_run.state.conversation_history) < MaxNodeHistory
    /\ recursion_count_of(graph_run.state) < MaxWaits
    /\ outside \in NodeOutcomes(node)
    /\ LET r == run_node(node, graph_run.state, outside)
       IN  graph_run' = [by |-> <<node>>, node |-> "none", executed |-> <<node>>,
                         raised |-> r.raised, before |-> graph_run.state, state |-> r.state]
    /\ UNCHANGED <<tables, relationships, csv_loader, query_retriever, pc, call,
                   session_state, query_cache>>

\* a caller applies update_state_with_feedback or update_state_with_clarification
UpdateState(update, text) ==
    /\ graph_run.state # None
    /\ Len(graph_run.state.conversation_history) < MaxNodeHistory
    /\ graph_run' = [by |-> <<update, text>>, node |-> "none", executed |-> <<>>,
                     raised |-> "", before |-> graph_run.state,
                     state |-> IF update = "update_state_with_feedback"
                               THEN update_state_with_feedback(graph_run.state, text)
                               ELSE update_state_with_clarification(graph_run.state, text)]
    /\ UNCHANGED <<tables, relationships, csv_loader, query_retriever, pc, call,
                   session_state, query_cache>>

\* the node functions and the state updates, in any order
NextNodes ==
    \/ \E query \in UserTexts : InitializeState(query)
    \/ \E node \in {"explain_query", "generate_sql", "wait_for_feedback"},
          outside \in {"raises", "invoke_raises", "unparsed", "explained", "valid",
                       "invalid", "nothing"} : ApplyNode(node, outside)
    \/ \E feedback \in {"good", "not_good"} :
          UpdateState("update_state_with_feedback", feedback)
    \/ \E clarification \in UserTexts :
          UpdateState("update_state_with_clarification", clarification)

SpecNodes == InitApp /\ [][NextNodes]_vars

----------------------------------------------------------------------------
(* The services: t2sql_service.py, langchain_utils.py, handlers.process_query *)

\* s.startswith(prefix) and s.endswith(suffix) of Python str
str_startswith(s, prefix) ==
    Len(prefix) <= Len(s) /\ SubSeq(s, 1, Len(prefix)) = prefix

str_endswith(s, suffix) ==
    Len(suffix) <= Len(s) /\ SubSeq(s, Len(s) - Len(suffix) + 1, Len(s)) = suffix

\* the refusal of safeguarded_t2sql
Refusal == <<"Sorry, that request isn't allowed.">>

\* _raw_t2sql(question)
_raw_t2sql(question) ==
    IF question = None THEN <<"Error: No valid question provided to _raw_t2sql.">>
    ELSE <<"SELECT simulated_data FROM table WHERE condition = '", question.str, "';">>

\* rails.run_input(text); is_allowed is what self.check_input(text) returns
custom_run_input(text, is_allowed) ==
    IF is_allowed THEN <<TRUE, Str(text)>> ELSE <<FALSE, None>>

\* Mutation of safeguarded_t2sql: the verdict of the rail is not looked at
safeguarded_t2sql_ungated(question, is_allowed) ==
    LET run == custom_run_input(question, is_allowed)
    IN  [run_input |-> run,
         result |-> _raw_t2sql(run[2]),
         effects |-> <<<<"_raw_t2sql", run[2]>>>>]

\* safeguarded_t2sql(question): [run_input, result, effects], effects being
\* the calls of the generator
safeguarded_t2sql(question, is_allowed) ==
    LET run == custom_run_input(question, is_allowed)
    IN  IF ~run[1]
        THEN [run_input |-> run, result |-> Refusal, effects |-> <<>>]
        ELSE [run_input |-> run,
              result |-> _raw_t2sql(run[2]),
              effects |-> <<<<"_raw_t2sql", run[2]>>>>]

\* hashlib.md5(question.encode()).hexdigest(): a digest that tells the
\* questions of the model apart
cache_key(question) == <<"md5", question>>

\* the three results of generate_sql
Explained(sql_query) ==
    [intermediate_steps |-> <<sql_query>>, result |-> <<"explanation of ", sql_query>>]

ExecutionError(sql_query) ==
    [intermediate_steps |-> <<sql_query>>, result |-> <<"Error executing query: ", "e">>]

GenerationError ==
    [intermediate_steps |-> <<"-- Error generating SQL query">>, result |-> <<"Error: ", "e">>]

\* Mutation of generate_sql: the error of an execution is cached too
generate_sql_caches_errors(cache, question, outside) ==
    LET key == cache_key(question)
    IN  IF key \in Keys(cache)
        THEN [result |-> Get(cache, key), cache |-> cache, effects |-> <<>>]
        ELSE IF outside.outcome = "llm_raises"
        THEN [result |-> GenerationError, cache |-> cache, effects |-> <<"llm">>]
        ELSE IF outside.outcome = "db_raises"
        THEN [result |-> ExecutionError(outside.sql),
              cache |-> Put(cache, key, ExecutionError(outside.sql)),
              effects |-> <<"llm", "db">>]
        ELSE IF outside.outcome = "explain_raises"
        THEN [result |-> ExecutionError(outside.sql),
              cache |-> Put(cache, key, ExecutionError(outside.sql)),
              effects |-> <<"llm", "db", "llm">>]
        ELSE [result |-> Explained(outside.sql),
              cache |-> Put(cache, key, Explained(outside.sql)),
              effects |-> <<"llm", "db", "llm">>]

\* generate_sql(question) of create_text2sql_agent on the module's
\* query_cache: [result, cache, effects]. outside.outcome says where the call
\* fails if it does: the first llm.invoke, the execution of the SQL, the
\* llm.invoke for the explanation; outside.sql is the SQL the LLM replies
generate_sql(cache, question, outside) ==
    LET key == cache_key(question)
    IN  IF key \in Keys(cache)
        THEN [result |-> Get(cache, key), cache |-> cache, effects |-> <<>>]
        ELSE IF outside.outcome = "llm_raises"
        THEN [result |-> GenerationError, cache |-> cache, effects |-> <<"llm">>]
        ELSE IF outside.outcome = "db_raises"
        THEN [result |-> ExecutionError(outside.sql), cache |-> cache,
              effects |-> <<"llm", "db">>]
        ELSE IF outside.outcome = "explain_raises"
        THEN [result |-> ExecutionError(outside.sql), cache |-> cache,
              effects |-> <<"llm", "db", "llm">>]
        ELSE [result |-> Explained(outside.sql),
              cache |-> Put(cache, key, Explained(outside.sql)),
              effects |-> <<"llm", "db", "llm">>]

\* the character U+0060, which a TLA+ string cannot hold
Backtick == "U+0060"

\* string literals of rag_sql_llm.py
SqlText ==
    [ LLMNotInitialized |-> <<"-","-"," ","L","L","M"," ","n","o","t"," ","i","n","i","t","i","a","l","i","z","e","d">>,
      ErrorGenerating |-> <<"-","-"," ","E","r","r","o","r"," ","g","e","n","e","r","a","t","i","n","g"," ","S","Q","L"," ","q","u","e","r","y">>,
      FenceOpen |-> <<Backtick,Backtick,Backtick,"s","q","l">>,
      Fence |-> <<Backtick,Backtick,Backtick>>,
      Diagnostic |-> <<"-","-"," ">> ]

\* RAGSQLGenerator.generate_sql_query(user_question): [raised, sql, effects].
\* llm is "none" (self.llm is None), "raises" or "replies"; vector_store says
\* whether the index is loaded; retrieval is "raises" or "documents"
generate_sql_query(llm, vector_store, retrieval, response) ==
    IF llm = "none"
    THEN [raised |-> "", sql |-> SqlText.LLMNotInitialized, effects |-> <<>>]
    ELSE IF vector_store /\ retrieval = "raises"
    THEN [raised |-> "Exception", sql |-> <<>>, effects |-> <<"retrieve">>]
    ELSE LET retrieved == IF vector_store THEN <<"retrieve">> ELSE <<>>
             unfenced == IF str_startswith(response, SqlText.FenceOpen)
                         THEN SubSeq(response, Len(SqlText.FenceOpen) + 1, Len(response))
                         ELSE response
             unclosed == IF str_endswith(unfenced, SqlText.Fence)
                         THEN SubSeq(unfenced, 1, Len(unfenced) - Len(SqlText.Fence))
                         ELSE unfenced
         IN  IF llm = "raises"
             THEN [raised |-> "", sql |-> SqlText.ErrorGenerating,
                   effects |-> Append(retrieved, "llm")]
             ELSE [raised |-> "", sql |-> strip(unclosed),
                   effects |-> Append(retrieved, "llm")]

\* the error dictionary of process_query
QueryError(error) == [sql_query |-> None, results |-> None, error |-> Str(error)]

\* Mutation of process_query: a diagnostic of the generator is executed like a
\* query
process_query_runs_diagnostic(query, outside) ==
    IF ~outside.api_key
    THEN [raised |-> "", generated |-> None, effects |-> <<>>,
          result |-> QueryError(<<"OPENAI_API_KEY not found. Cannot initialize RAG SQL Generator.">>)]
    ELSE IF outside.init = "raises"
    THEN [raised |-> "", generated |-> None, effects |-> <<"init">>,
          result |-> QueryError(<<"Error initializing RAG SQL Generator: ", "e">>)]
    ELSE IF outside.init = "no_index"
    THEN [raised |-> "", generated |-> None, effects |-> <<"init">>,
          result |-> QueryError(<<"Failed to load FAISS index from ",
                                  "data/context_faiss_store_v1",
                                  ". RAG pipeline cannot operate.">>)]
    ELSE LET g == generate_sql_query(outside.llm, TRUE, outside.retrieval, outside.response)
             ran == <<"init">> \o g.effects
         IN  IF g.raised # ""
             THEN [raised |-> "", generated |-> None, effects |-> ran,
                   result |-> QueryError(<<"Error generating SQL via RAG: ", "e">>)]
             ELSE IF g.sql = <<>>
             THEN [raised |-> "", generated |-> Str(g.sql), effects |-> ran,
                   result |-> QueryError(<<"RAG SQL Generator returned an empty query.">>)]
             ELSE IF ~outside.db_path
             THEN [raised |-> "", generated |-> Str(g.sql), effects |-> ran,
                   result |-> [sql_query |-> Str(g.sql), results |-> None,
                               error |-> Str(<<"Unexpected error executing query: ", "e">>)]]
             ELSE [raised |-> "", generated |-> Str(g.sql),
                   effects |-> Append(ran, "execute"),
                   result |-> IF outside.db = "rows"
                              THEN [sql_query |-> Str(g.sql),
                                    results |-> [tag |-> "DataFrame"], error |-> None]
                              ELSE [sql_query |-> Str(g.sql), results |-> None,
                                    error |-> Str(<<"e">>)]]

\* process_query(query): [raised, generated, effects, result]; generated is
\* what generate_sql_query returned, None when it did not return. outside:
\* api_key (OPENAI_API_KEY is set), init (the constructor of RAGSQLGenerator
\* raises, leaves the index unloaded, or succeeds), llm, retrieval, response
\* (as generate_sql_query), db_path (st.session_state has db_path) and db (the
\* query returns rows or an error)
process_query(query, outside) ==
    IF ~outside.api_key
    THEN [raised |-> "", generated |-> None, effects |-> <<>>,
          result |-> QueryError(<<"OPENAI_API_KEY not found. Cannot initialize RAG SQL Generator.">>)]
    ELSE IF outside.init = "raises"
    THEN [raised |-> "", generated |-> None, effects |-> <<"init">>,
          result |-> QueryError(<<"Error initializing RAG SQL Generator: ", "e">>)]
    ELSE IF outside.init = "no_index"
    THEN [raised |-> "", generated |-> None, effects |-> <<"init">>,
          result |-> QueryError(<<"Failed to load FAISS index from ",
                                  "data/context_faiss_store_v1",
                                  ". RAG pipeline cannot operate.">>)]
    ELSE LET g == generate_sql_query(outside.llm, TRUE, outside.retrieval, outside.response)
             ran == <<"init">> \o g.effects
         IN  IF g.raised # ""
             THEN [raised |-> "", generated |-> None, effects |-> ran,
                   result |-> QueryError(<<"Error generating SQL via RAG: ", "e">>)]
             ELSE IF g.sql = <<>>
             THEN [raised |-> "", generated |-> Str(g.sql), effects |-> ran,
                   result |-> QueryError(<<"RAG SQL Generator returned an empty query.">>)]
             ELSE IF str_startswith(g.sql, SqlText.Diagnostic)
             THEN [raised |-> "", generated |-> Str(g.sql), effects |-> ran,
                   result |-> QueryError(<<"RAG SQL Generator indicated an issue: ", g.sql>>)]
             ELSE IF ~outside.db_path
             THEN [raised |-> "", generated |-> Str(g.sql), effects |-> ran,
                   result |-> [sql_query |-> Str(g.sql), results |-> None,
                               error |-> Str(<<"Unexpected error executing query: ", "e">>)]]
             ELSE [raised |-> "", generated |-> Str(g.sql),
                   effects |-> Append(ran, "execute"),
                   result |-> IF outside.db = "rows"
                              THEN [sql_query |-> Str(g.sql),
                                    results |-> [tag |-> "DataFrame"], error |-> None]
                              ELSE [sql_query |-> Str(g.sql), results |-> None,
                                    error |-> Str(<<"e">>)]]

\* the questions put to the guarded service
Questions ==
    {"Show me all orders from last month", "DROP TABLE customers",
     "Give me SSNs of customers"}

\* the SQL the LLM replies to generate_sql
Replies == {"SELECT 1", "SELECT 2"}

\* the replies of the LLM to generate_sql_query
Responses ==
    { <<"S","E","L","E","C","T"," ","1">>,
      <<Backtick,Backtick,Backtick,"s","q","l","\n","S","E","L","E","C","T"," ","1","\n",Backtick,Backtick,Backtick>>,
      <<"-","-"," ","U","n","a","b","l","e">>,
      <<Backtick,Backtick,Backtick,"s","q","l","\n","-","-"," ","x",Backtick,Backtick,Backtick>>,
      <<" ","\n">>,
      <<"-","-","x">>,
      <<>> }

GenerateOutsides ==
    [outcome : {"llm_raises", "db_raises", "explain_raises", "succeeds"}, sql : Replies]

ProcessOutsides ==
    [api_key : BOOLEAN, init : {"raises", "no_index", "loaded"},
     llm : {"raises", "replies"}, retrieval : {"raises", "documents"},
     response : Responses, db_path : BOOLEAN, db : {"rows", "error"}]

\* a caller asks the guarded service
SafeguardedT2sql(question, is_allowed) ==
    /\ pc = "idle"
    /\ pc' = "done"
    /\ LET r == safeguarded_t2sql(question, is_allowed)
       IN  call' = [op |-> "safeguarded_t2sql", args |-> <<question, is_allowed>>,
                    cache |-> query_cache, returned |-> r]
    /\ UNCHANGED <<tables, relationships, csv_loader, query_retriever,
                   session_state, graph_run, query_cache>>

\* a caller asks the agent of create_text2sql_agent
GenerateSql(question, outside) ==
    /\ pc = "idle"
    /\ pc' = "done"
    /\ LET r == generate_sql(query_cache, question, outside)
       IN  /\ call' = [op |-> "generate_sql", args |-> <<question, outside>>,
                       cache |-> query_cache, returned |-> r]
           /\ query_cache' = r.cache
    /\ UNCHANGED <<tables, relationships, csv_loader, query_retriever,
                   session_state, graph_run>>

\* the page calls process_query
ProcessQuery(query, outside) ==
    /\ pc = "idle"
    /\ pc' = "done"
    /\ call' = [op |-> "process_query", args |-> <<query, outside>>,
                cache |-> query_cache, returned |-> process_query(query, outside)]
    /\ UNCHANGED <<tables, relationships, csv_loader, query_retriever,
                   session_state, graph_run, query_cache>>

\* the services
NextService ==
    \/ \E question \in Questions, is_allowed \in BOOLEAN :
          SafeguardedT2sql(question, is_allowed)
    \/ \E question \in UserTexts, outside \in GenerateOutsides :
          GenerateSql(question, outside)
    \/ \E query \in UserTexts, outside \in ProcessOutsides : ProcessQuery(query, outside)
    \/ Return

SpecService == InitApp /\ [][NextService]_vars

----------------------------------------------------------------------------
(* Properties of the matcher *)

SearchDone == pc = "done" /\ call.op = "search_schema"
SearchReturned == SearchDone /\ call.result.raised = ""

\* tables A, B, C with A.id -> B.a_id and B.id -> C.b_id, in either order
P5Model ==
    /\ TableNames = {N_A, N_B, N_C}
    /\ Len(relationships) = 2
    /\ Range(relationships) = {R_AB, R_BC}

\* C1: one-hop closure. In a model with tables A, B, C and relationships
\* A.id -> B.a_id, B.id -> C.b_id, a query that lexically matches only B
\* returns A, B and C (A and C with all their columns) and both relationships.
C1_OneHopClosure ==
    (SearchDone /\ P5Model /\ Keys(call.direct) = {N_B}) =>
        /\ call.result.raised = ""
        /\ Keys(call.result.tables) = {N_A, N_B, N_C}
        /\ Get(call.result.tables, N_A) = ColumnsOf(N_A)
        /\ Get(call.result.tables, N_C) = ColumnsOf(N_C)
        /\ {R_AB, R_BC} \subseteq Range(call.result.relationships)

C1_Witness ==
    /\ SearchReturned /\ P5Model /\ Keys(call.direct) = {N_B}
    /\ Len(call.result.tables) = 3

\* C2: the expansion is one hop, not transitive. Whatever the order of the
\* relationship list, a table that expansion adds shares a relationship with
\* a table matched directly (by name, column or alias).
C2_OneHopOnly ==
    (SearchReturned /\ call.matched # <<>>) =>
        \A name \in Keys(call.result.tables) \ Keys(call.matched) :
            \E i \in DOMAIN relationships :
                \/ /\ relationships[i].source_table = name
                   /\ relationships[i].target_table \in Keys(call.matched)
                \/ /\ relationships[i].target_table = name
                   /\ relationships[i].source_table \in Keys(call.matched)

\* a relationship endpoint that is no key of the table map
HasDanglingEndpoint ==
    \E i \in DOMAIN relationships :
        \/ relationships[i].source_table \notin TableNames
        \/ relationships[i].target_table \notin TableNames

\* C3: dangling relationship endpoints are handled gracefully. search_schema
\* never raises when a relationship names a table that is no key of the
\* table map.
C3_DanglingNeverRaises ==
    (SearchDone /\ HasDanglingEndpoint) => call.result.raised = ""

\* the first min(3, n) tables in insertion order, each with all its columns
FirstTables ==
    [i \in 1..(IF Len(tables) < 3 THEN Len(tables) ELSE 3) |->
        [key |-> tables[i].name, value |-> tables[i].columns]]

\* C4: fallback rule. For a model with at least one table and a query for
\* which direct matching, alias matching and expansion select no table, the
\* result is the first min(3, n) tables in insertion order with all their
\* columns; a returned table map is never empty for a non-empty model.
C4_Fallback ==
    (SearchDone /\ tables # <<>>) =>
        /\ call.matched = <<>> =>
              /\ call.result.raised = ""
              /\ call.result.tables = FirstTables
        /\ call.result.raised = "" => call.result.tables # <<>>

C4_Witness ==
    /\ SearchReturned /\ Len(tables) >= 4 /\ call.matched = <<>>
    /\ call.query = <<>>
    /\ Len(call.result.tables) = 3

----------------------------------------------------------------------------
(* Properties of direct matching, case and aliases *)

\* the lowercase word tokens of a query: its maximal runs of letters, digits
\* and underscores, lowercased
WordTokens(q) ==
    { lower(SubSeq(q, p[1], p[2])) : p \in
        { p \in (DOMAIN q) \X (DOMAIN q) :
            /\ p[1] <= p[2]
            /\ \A k \in p[1]..p[2] : IsWordChar(q[k])
            /\ (p[1] = 1 \/ ~IsWordChar(q[p[1] - 1]))
            /\ (p[2] = Len(q) \/ ~IsWordChar(q[p[2] + 1])) } }

\* the columns of table t whose lowercased name is a token
ColumnHits(t, tokens) == {c \in Range(t.columns) : lower(c.name) \in tokens}

\* table t is matched directly: by its name or by one of its columns
DirectHit(t, tokens) == lower(t.name) \in tokens \/ ColumnHits(t, tokens) # {}

\* the outcome of direct matching for the given tokens: the selected tables
\* and their matching columns
DirectMatchingHolds(tokens) ==
    \A i \in DOMAIN tables :
        /\ tables[i].name \in Keys(call.direct) <=> DirectHit(tables[i], tokens)
        /\ DirectHit(tables[i], tokens) =>
              ColumnHits(tables[i], tokens)
                  \subseteq Range(Get(call.direct, tables[i].name))
        /\ (DirectHit(tables[i], tokens) /\ call.result.raised = "") =>
              /\ tables[i].name \in Keys(call.result.tables)
              /\ ColumnHits(tables[i], tokens)
                    \subseteq Range(Get(call.result.tables, tables[i].name))

\* C5: downstream prompting never receives an empty schema context. When
\* the CSV schema has at least one table, get_relevant_context yields at
\* least one relevant table and relevant_schema lists a "Table:" entry.
C5_ContextNeverEmpty ==
    (pc = "done" /\ call.op = "get_relevant_context" /\ csv_loader.tables # <<>>) =>
        /\ call.result.relevant_tables # <<>>
        /\ Contains(call.result.relevant_schema, Text.TableLine)

\* C6: direct matching. The query is tokenized into lowercase word tokens;
\* exactly the tables whose lowercased name is a token or that have a column
\* whose lowercased name is a token are selected, and every such matching
\* column is in the table's returned column list.
C6_DirectMatching ==
    SearchDone => DirectMatchingHolds(WordTokens(call.query))

C6_Witness ==
    /\ SearchReturned
    /\ {N_B, N_C} \subseteq Keys(call.direct)
    /\ Get(call.direct, N_B) = ColumnsOf(N_B)
    /\ Len(Get(call.direct, N_C)) = 1
    /\ Len(ColumnsOf(N_C)) = 2

\* a dict as a mapping, without its insertion order
AsMap(d) == [k \in Keys(d) |-> Get(d, k)]

\* two outcomes of search_schema are the same relevant subset
SameSubset(x, y) ==
    /\ x.raised = y.raised
    /\ x.raised = "" =>
          /\ AsMap(x.tables) = AsMap(y.tables)
          /\ x.relationships = y.relationships

\* C7: case-insensitive matching. A query written in upper case and the same
\* query written in lower case give identical relevant subsets (here: both
\* give the subset of the query as typed), for both matchers.
C7_CaseInsensitive ==
    /\ SearchDone =>
          /\ \A o \in Orders(query_terms(upper(call.query))) :
                SameSubset(search_schema(upper(call.query), o), call.result)
          /\ \A o \in Orders(query_terms(lower(call.query))) :
                SameSubset(search_schema(lower(call.query), o), call.result)
    /\ (pc = "done" /\ call.op = "_search_csv_schema") =>
          /\ _search_csv_schema(upper(call.query)) = call.result
          /\ _search_csv_schema(lower(call.query)) = call.result

C7_Witness ==
    /\ SearchReturned
    /\ <<"S","t","a","f","f">> \in Keys(call.direct)
    /\ call.query # upper(call.query)
    /\ call.query # lower(call.query)

\* the terms of an alias group: its key and its aliases
GroupTerms(group) == {group.key} \cup Range(group.values)

\* C8: semantic-alias step. When direct matching found no table and a query
\* token belongs to an alias group, every table whose lowercased name
\* contains one of the terms of that group is included with all its columns;
\* when direct matching found a table the alias step adds nothing.
C8_SemanticAlias ==
    SearchReturned =>
        /\ call.direct = <<>> =>
              \A g \in DOMAIN semantic_matches :
                  WordTokens(call.query) \cap GroupTerms(semantic_matches[g]) # {} =>
                      \A i \in DOMAIN tables :
                          (\E x \in GroupTerms(semantic_matches[g]) :
                                Contains(lower(tables[i].name), x)) =>
                              /\ tables[i].name \in Keys(call.result.tables)
                              /\ Get(call.result.tables, tables[i].name)
                                    = tables[i].columns
        /\ call.direct # <<>> => call.matched = call.direct

\* C9: matching is side-effect free. No call changes the model's tables,
\* columns or relationships, and every table name of a returned subset is a
\* key of the model's table map, in its own casing.
C9_SideEffectFree ==
    /\ [](SearchReturned => Keys(call.result.tables) \subseteq TableNames)
    /\ [][tables' = tables /\ relationships' = relationships]_vars

C9_Witness ==
    /\ SearchReturned
    /\ call.session = 2
    /\ \E k \in Keys(call.result.tables) : k # lower(k)
    /\ Keys(call.result.tables) # Keys(call.direct)

----------------------------------------------------------------------------
(* Properties of the extractor *)

\* the columns a declaration declares: name and data type, in order
declared_columns(d) ==
    [i \in DOMAIN d.columns |-> [name |-> d.columns[i].name, type |-> d.columns[i].type]]

\* C10: column extraction. For a CREATE TABLE statement whose body lists n
\* column definitions "<name> <type> [modifiers]" separated by commas, on one
\* line or on several lines, the extractor yields exactly one table with
\* exactly the n declared columns in declaration order, each with its
\* declared name and its declared data type.
C10_ColumnExtraction ==
    (pc = "done" /\ call.op = "__init__") =>
        \A d \in Declarations :
            (d.fk # "inline" /\ call.ddl_content = ddl_text(d)) =>
                /\ Len(tables) = 1
                /\ tables[1].columns = declared_columns(d)

\* the table a declaration names, without its brackets
declared_table(d) ==
    IF d.name[1] = "[" THEN SubSeq(d.name, 2, Len(d.name) - 1) ELSE d.name

\* the relationship the foreign key of a declaration states: the inline
\* clause has the declared table as its source, the ALTER TABLE statement
\* the altered table Orders
declared_relationships(d) ==
    IF d.fk = "none" THEN <<>>
    ELSE << [source_table |-> IF d.fk = "inline" THEN declared_table(d)
                              ELSE <<"O","r","d","e","r","s">>,
             source_column |-> <<"u","s","e","r","_","i","d">>,
             target_table |-> <<"U","s","e","r","s">>,
             target_column |-> <<"u","s","e","r","_","i","d">>] >>

\* C11: foreign-key extraction. Every inline CONSTRAINT ... FOREIGN KEY clause
\* of a CREATE TABLE block yields exactly one relationship whose source table
\* is the table being parsed, every ALTER TABLE ... FOREIGN KEY statement
\* exactly one whose source table is the altered table, each with the stated
\* source column, target table and target column; there is no other
\* relationship.
C11_ForeignKeyExtraction ==
    (pc = "done" /\ call.op = "__init__") =>
        \A d \in Declarations :
            call.ddl_content = ddl_text(d) => relationships = declared_relationships(d)

\* the SQL keywords that open a constraint or a column modifier
SQLKeywords ==
    { <<"P","R","I","M","A","R","Y">>,
      <<"K","E","Y">>,
      <<"N","O","T">>,
      <<"N","U","L","L">>,
      <<"D","E","F","A","U","L","T">>,
      <<"C","H","E","C","K">>,
      <<"U","N","I","Q","U","E">>,
      <<"F","O","R","E","I","G","N">>,
      <<"R","E","F","E","R","E","N","C","E","S">>,
      <<"C","O","N","S","T","R","A","I","N","T">> }

\* the text s starts with the text prefix, in any casing
StartsWith(s, prefix) ==
    /\ Len(prefix) <= Len(s)
    /\ upper(SubSeq(s, 1, Len(prefix))) = upper(prefix)

\* C12: keyword guard. A constraint line inside a CREATE TABLE body never
\* produces a column: no extracted column has a name that is or starts with
\* one of the SQL keywords.
C12_KeywordGuard ==
    (pc = "done" /\ call.op = "__init__") =>
        \A i \in DOMAIN tables : \A j \in DOMAIN tables[i].columns :
            \A kw \in SQLKeywords : ~StartsWith(tables[i].columns[j].name, kw)

\* the canonical name of a table as declared: without brackets, schema
\* qualifier and surrounding whitespace
canonical_name(name) ==
    LET bare == IF name # <<>> /\ name[1] = "[" THEN SubSeq(name, 2, Len(name) - 1) ELSE name
        dots == {i \in DOMAIN bare : bare[i] = "."}
        last == IF dots = {} THEN 0 ELSE CHOOSE i \in dots : \A j \in dots : j <= i
    IN  strip(SubSeq(bare, last + 1, Len(bare)))

\* C13: canonical table names. The key under which a table is stored and the
\* table names recorded as relationship endpoints have the schema qualifier,
\* the brackets and the surrounding whitespace stripped: [dbo.Users],
\* dbo.Users and Users all give the table name Users.
C13_CanonicalNames ==
    (pc = "done" /\ call.op = "__init__") =>
        /\ \A d \in Declarations :
              call.ddl_content = ddl_text(d) =>
                  /\ Len(tables) = 1
                  /\ tables[1].name = canonical_name(d.name)
        /\ \A i \in DOMAIN relationships :
              /\ relationships[i].source_table = canonical_name(relationships[i].source_table)
              /\ relationships[i].target_table = canonical_name(relationships[i].target_table)

\* C14: extraction outcome. Constructing the extractor on a DDL source that
\* does not exist fails with a not-found error and produces no model; on an
\* existing source with no CREATE TABLE statement it succeeds with a model of
\* zero tables, and search_schema on a model of zero tables returns an empty
\* subset without raising.
C14_ExtractionOutcome ==
    /\ (call.op = "__init__" /\ pc # "new") =>
          /\ ~call.exists =>
                /\ pc = "raised"
                /\ call.result.raised = "FileNotFoundError"
                /\ tables = <<>> /\ relationships = <<>>
          /\ call.exists => pc = "done" /\ call.result.raised = ""
          /\ (call.exists /\ ~Contains(upper(call.ddl_content), <<"C","R","E","A","T","E"," ","T","A","B","L","E">>)) =>
                tables = <<>>
    /\ (pc = "done" /\ call.op = "search_schema" /\ tables = <<>>) =>
          call.result = [raised |-> "", tables |-> <<>>, relationships |-> <<>>]

\* search_schema has returned on a model of zero tables that holds the
\* relationship of an ALTER TABLE statement
C14_Witness ==
    /\ pc = "done" /\ call.op = "search_schema"
    /\ tables = <<>> /\ relationships # <<>>
    /\ call.query # <<>>

----------------------------------------------------------------------------
(* Properties of the formatters *)

\* the words that say no table is relevant
NoTablesMarker ==
    <<"N","o"," ","r","e","l","e","v","a","n","t"," ","t","a","b","l","e","s"," ","f","o","u","n","d">>

\* the relevant subsets with zero tables: any list of relationships
ZeroTableSubsets ==
    { [tables |-> <<>>, relationships |-> rels] : rels \in RelLists }

GetContextDone == pc = "done" /\ call.op = "get_relevant_context"

\* C15: non-empty schema formatting. For any relevant subset with zero
\* tables _format_relevant_schema returns a non-empty text that holds the
\* explicit "no relevant tables found" marker, and so does the
\* relevant_schema of a context whose relevant_tables is empty.
C15_NonEmptyFormatting ==
    /\ \A subset \in ZeroTableSubsets :
          /\ _format_relevant_schema(subset) # <<>>
          /\ Contains(_format_relevant_schema(subset), NoTablesMarker)
    /\ (GetContextDone /\ _search_csv_schema(call.query).tables = <<>>) =>
          \/ Contains(call.result.relevant_schema, NoTablesMarker)
          \/ call.result.relevant_schema = Text.ErrorSchema

\* a context was built for a query that selects no table of a schema that
\* has tables, and its relevant_schema carries the marker
C15_Witness ==
    /\ GetContextDone
    /\ get_tables # <<>>
    /\ call.result.relevant_tables = <<>>
    /\ Contains(call.result.relevant_schema, NoTablesMarker)

FormatDocumentsDone == pc = "done" /\ call.op = "_format_retrieved_documents"

\* the content of every document of the list, where there is one, is a str
ContentIsText(docs) ==
    \A i \in DOMAIN docs :
        (docs[i].tag = "dict" /\ "content" \in Keys(docs[i].dict)) =>
            Get(docs[i].dict, "content").tag = "str"

\* the document has content that is not empty or whitespace-only
HasContent(doc) ==
    /\ doc.tag = "dict"
    /\ "content" \in Keys(doc.dict)
    /\ Get(doc.dict, "content").tag = "str"
    /\ \E k \in DOMAIN Get(doc.dict, "content").str :
          Get(doc.dict, "content").str[k] \notin Whitespace

\* the text is a "-- No ... retrieved ..." marker
IsNothingRetrievedMarker(text) ==
    /\ StartsWith(text, <<"-","-"," ","N","o"," ">>)
    /\ Contains(text, <<"s","t","a","t","e","m","e","n","t","s","/","e","x","a","m","p","l","e","s"," ","r","e","t","r","i","e","v","e","d">>)

\* C16: _format_retrieved_documents never returns an empty string. For an
\* empty document list, and for a list in which every document is dropped,
\* it returns an explicit "nothing retrieved" marker and raises nothing.
C16_DocumentsNeverEmpty ==
    (FormatDocumentsDone /\ ContentIsText(call.retrieved_docs)) =>
        /\ call.result.raised = ""
        /\ call.result.text # <<>>
        /\ (\A i \in DOMAIN call.retrieved_docs : ~HasContent(call.retrieved_docs[i])) =>
              IsNothingRetrievedMarker(call.result.text)

\* a list of two documents, both dropped, was formatted
C16_Witness ==
    /\ FormatDocumentsDone
    /\ Len(call.retrieved_docs) = 2
    /\ \A i \in DOMAIN call.retrieved_docs : ~HasContent(call.retrieved_docs[i])
    /\ IsNothingRetrievedMarker(call.result.text)

\* the metadata of a document, empty when it has none or it is no dict
MetadataOf(doc) ==
    IF "metadata" \in Keys(doc.dict) /\ Get(doc.dict, "metadata").tag = "dict"
    THEN Get(doc.dict, "metadata").dict
    ELSE <<>>

\* the text under key k of the metadata, or the placeholder
FieldOr(doc, k, placeholder) ==
    IF k \in Keys(MetadataOf(doc)) THEN Get(MetadataOf(doc), k).str ELSE placeholder

TypeOf(doc) == FieldOr(doc, "type", <<"u","n","k","n","o","w","n">>)

\* the header that metadata.type determines
ExpectedHeader(doc) ==
    IF TypeOf(doc) = <<"t","a","b","l","e">>
    THEN <<"-","-"," ","R","e","t","r","i","e","v","e","d"," ","T","a","b","l","e"," ","D","e","s","c","r","i","p","t","i","o","n"," ","f","o","r"," ">>
         \o FieldOr(doc, "table_name", <<"U","n","k","n","o","w","n"," ","T","a","b","l","e">>) \o <<":">>
    ELSE IF TypeOf(doc) = <<"c","o","l","u","m","n">>
    THEN <<"-","-"," ","R","e","t","r","i","e","v","e","d"," ","C","o","l","u","m","n"," ","D","e","s","c","r","i","p","t","i","o","n"," ","f","o","r"," ">>
         \o FieldOr(doc, "table_name", <<"U","n","k","n","o","w","n"," ","T","a","b","l","e">>) \o <<".">>
         \o FieldOr(doc, "column_name", <<"U","n","k","n","o","w","n"," ","C","o","l","u","m","n">>) \o <<":">>
    ELSE IF TypeOf(doc) = <<"e","x","a","m","p","l","e","_","q","u","e","r","y">>
    THEN <<"-","-"," ","R","e","t","r","i","e","v","e","d"," ","E","x","a","m","p","l","e"," ","S","Q","L"," ","Q","u","e","r","y",":">>
    ELSE <<"-","-"," ","R","e","t","r","i","e","v","e","d"," ","C","o","n","t","e","x","t"," ","(","t","y","p","e",":"," ">> \o TypeOf(doc) \o <<")",":">>

\* the block of a document with content: its header, then its content
ExpectedBlock(doc) ==
    ExpectedHeader(doc) \o <<"\n">> \o strip(Get(doc.dict, "content").str)

\* one block per document with content, in input order, a blank line between
ExpectedText(docs) ==
    LET kept == SelectSeq(docs, HasContent)
    IN  join(<<"\n","\n">>, [i \in DOMAIN kept |-> ExpectedBlock(kept[i])])

\* C17: document rendering. The output of _format_retrieved_documents has
\* exactly one block per input document whose content is not empty or
\* whitespace-only, in input order, and none for the others; the header of
\* a block is the one its metadata.type determines: table, column (qualified
\* as table.column), example query, or the generic label for any other or
\* missing type.
C17_DocumentRendering ==
    (/\ FormatDocumentsDone
     /\ ContentIsText(call.retrieved_docs)
     /\ \E i \in DOMAIN call.retrieved_docs : HasContent(call.retrieved_docs[i])) =>
        call.result.text = ExpectedText(call.retrieved_docs)

\* a column description and a table description were rendered, in this order
C17_Witness ==
    /\ FormatDocumentsDone
    /\ call.retrieved_docs = <<DocColumn, DocTable>>
    /\ call.result.text = ExpectedText(call.retrieved_docs)

FormatSchemaDone == pc = "done" /\ call.op = "_format_relevant_schema"

\* a relevant subset as typed: every column has a name and a type, every
\* relationship its two endpoints
WellTypedSubset(subset) ==
    /\ \A i \in DOMAIN subset.tables : \A j \in DOMAIN subset.tables[i].value :
          /\ "name" \in DOMAIN subset.tables[i].value[j]
          /\ "type" \in DOMAIN subset.tables[i].value[j]
    /\ \A i \in DOMAIN subset.relationships :
          \A k \in {"source_table", "source_column", "target_table", "target_column"} :
              k \in DOMAIN subset.relationships[i]

\* C18: formatter totality. _format_relevant_schema and
\* _format_retrieved_documents raise nothing on well-typed input, also with
\* partially malformed metadata: a document that lacks table_name or
\* column_name is rendered with "Unknown Table" / "Unknown Column", and a
\* document with no metadata, no type or no content never prevents the other
\* documents of the list from being rendered.
C18_FormatterTotality ==
    /\ (FormatSchemaDone /\ WellTypedSubset(call.relevant_schema_data)) =>
          call.result.raised = "" /\ call.result.text # <<>>
    /\ (FormatDocumentsDone /\ ContentIsText(call.retrieved_docs)) =>
          /\ call.result.raised = ""
          /\ \A i \in DOMAIN call.retrieved_docs :
                HasContent(call.retrieved_docs[i]) =>
                    /\ Contains(call.result.text, ExpectedBlock(call.retrieved_docs[i]))
                    /\ call.retrieved_docs[i] = DocColumn =>
                          Contains(call.result.text,
                                   <<"f","o","r"," ","U","n","k","n","o","w","n"," ","T","a","b","l","e",".","U","n","k","n","o","w","n"," ","C","o","l","u","m","n",":","\n">>)

\* a document with no metadata and a column description that names neither
\* its table nor its column were formatted together
C18_Witness ==
    /\ FormatDocumentsDone
    /\ Len(call.retrieved_docs) = 2
    /\ call.retrieved_docs[2] = DocColumn
    /\ HasContent(call.retrieved_docs[1])
    /\ "metadata" \notin Keys(call.retrieved_docs[1].dict)
    /\ Contains(call.result.text, <<"U","n","k","n","o","w","n"," ","T","a","b","l","e",".","U","n","k","n","o","w","n"," ","C","o","l","u","m","n">>)

----------------------------------------------------------------------------
(* Properties of the CSV loader *)

ConstructionEnded == call.op = "RAGContextProvider" /\ pc # "new"

\* one of the three CSV files is absent
SomeFileMissing ==
    ~call.files.tables.exists \/ ~call.files.columns.exists \/ ~call.files.joins.exists

NoLoader == csv_loader = [tables |-> <<>>, columns |-> <<>>, joins |-> <<>>]

\* a row shorter than the header: a field of the record is None
IsShortRow(rec) == \E i \in DOMAIN rec : rec[i].value.tag = "none"

HasShortRow(file) == \E i \in DOMAIN file.records : IsShortRow(file.records[i])

\* C19: a missing required CSV is fatal at load time. When any one of the
\* three CSV files is absent the construction of RAGContextProvider raises
\* a file-not-found error and yields no loader.
C19_MissingCsvNotFound ==
    (ConstructionEnded /\ SomeFileMissing) =>
        /\ pc = "raised"
        /\ call.result.raised = "FileNotFoundError"
        /\ NoLoader

\* What holds of C19: when any one of the three CSV files is absent the
\* construction raises and yields no loader; the exception is the
\* file-not-found error unless a file read before the absent one (tables,
\* then columns, then joins) has a row shorter than the header.
C19_MissingCsvFatal ==
    /\ (ConstructionEnded /\ SomeFileMissing) =>
          /\ pc = "raised"
          /\ NoLoader
          /\ \/ call.result.raised = "FileNotFoundError"
             \/ HasShortRow(call.files.tables)
             \/ call.files.tables.exists /\ HasShortRow(call.files.columns)
    /\ pc = "raised" => NoLoader /\ call.op = "RAGContextProvider"

\* the rows of a file that are well-formed: no field is None and the
\* fields in `required` are not blank
WellFormedRows(file, required) ==
    SelectSeq(file.records, LAMBDA rec :
        /\ ~IsShortRow(rec)
        /\ \A i \in DOMAIN rec : rec[i].key \in required => strip(rec[i].value.str) # <<>>)

\* C20: per-row anomalies are absorbed. When the three CSV files exist the
\* construction never raises, whatever their rows (empty fields, a row
\* shorter than the header), and every well-formed row is loaded: there are
\* as many tables, columns and joins as well-formed rows.
C20_RowAnomaliesAbsorbed ==
    (ConstructionEnded /\ ~SomeFileMissing) =>
        /\ pc = "done"
        /\ call.result.raised = ""
        /\ Len(csv_loader.tables) = Len(WellFormedRows(call.files.tables, {"table_name"}))
        /\ Len(csv_loader.columns) =
              Len(WellFormedRows(call.files.columns, {"Table_name", "column_name", "SQL_FORMAT"}))
        /\ Len(csv_loader.joins) =
              Len(WellFormedRows(call.files.joins,
                      {"Primary_Table_Name", "Primary_Table_Column",
                       "Foreign_Table_Name", "Foreign_Table_Column"}))

----------------------------------------------------------------------------
(* Properties across the two matchers *)

CsvSearchDone == pc = "done" /\ call.op = "_search_csv_schema"

\* the columns of a result table, by name and type
ColumnSignature(columns) ==
    [i \in DOMAIN columns |-> <<columns[i].name, columns[i].type>>]

\* the endpoints of the relationships of a result
RelationshipEndpoints(rels) ==
    [i \in DOMAIN rels |-> <<rels[i].source_table, rels[i].source_column,
                             rels[i].target_table, rels[i].target_column>>]

\* the outcome x of search_schema and the result y of _search_csv_schema
\* (which has no raising path) select the same tables, the same columns per
\* table and the same relationships
SameSelection(x, y) ==
    /\ x.raised = ""
    /\ Keys(x.tables) = Keys(y.tables)
    /\ \A k \in Keys(x.tables) :
          ColumnSignature(Get(x.tables, k)) = ColumnSignature(Get(y.tables, k))
    /\ RelationshipEndpoints(x.relationships) = RelationshipEndpoints(y.relationships)

\* C21: _search_csv_schema mimics search_schema. On the same tables, columns
\* and relationships and the same query, both matchers return the same
\* tables, the same columns per table and the same relationships.
C21_CsvMimicsSearch ==
    CsvSearchDone =>
        \A o \in Orders(query_terms(call.query)) :
            SameSelection(search_schema(call.query, o), call.result)

----------------------------------------------------------------------------
(* Properties of get_relevant_context *)

ContextKeys ==
    {"relevant_schema", "relevant_statements", "full_schema", "relevant_tables",
     "query_terms"}

\* the retriever is absent or its call threw
NothingRetrieved == query_retriever = "none" \/ call.retrieval.raised # ""

\* the schema part of the context is the one computed from the query
SchemaContextOf(query, context) ==
    /\ context.relevant_schema = _format_relevant_schema(_search_csv_schema(query))
    /\ context.relevant_tables =
          [i \in DOMAIN _search_csv_schema(query).tables |->
              _search_csv_schema(query).tables[i].key]
    /\ context.query_terms = _extract_query_terms(query)

\* the "minimal, safe dictionary"
IsErrorContext(context) ==
    /\ context.relevant_schema = Text.ErrorSchema
    /\ context.relevant_statements = Text.ErrorStatements
    /\ context.relevant_tables = <<>>
    /\ context.query_terms = <<>>

\* C22: get_relevant_context never raises and always returns a dictionary
\* with the five keys. When the retriever is absent or its call throws,
\* relevant_statements is the "no statements retrieved" marker and the schema
\* context is still computed from the query; when a later step raises, the
\* result carries the two error strings, full_schema, and empty
\* relevant_tables and query_terms.
C22_ContextTotality ==
    GetContextDone =>
        /\ DOMAIN call.result = ContextKeys
        /\ call.result.full_schema = _get_full_schema_from_csv
        /\ NothingRetrieved =>
              /\ call.result.relevant_statements = Text.NoStatements
              /\ SchemaContextOf(call.query, call.result)
        /\ \/ SchemaContextOf(call.query, call.result)
           \/ /\ IsErrorContext(call.result)
              /\ _format_retrieved_documents(call.retrieval.docs).raised # ""

\* the retriever's call threw, and the context still names tables
C22_Witness ==
    /\ GetContextDone
    /\ query_retriever = "ready"
    /\ call.retrieval.raised # ""
    /\ call.result.relevant_tables # <<>>
    /\ call.result.relevant_statements = Text.NoStatements

\* every relationship of a result has both its tables among the result's
\* table keys
ClosedOverTables(result) ==
    \A i \in DOMAIN result.relationships :
        /\ result.relationships[i].source_table \in Keys(result.tables)
        /\ result.relationships[i].target_table \in Keys(result.tables)

\* the table map of a search_schema result was produced by the fallback rule
FallbackApplied ==
    /\ SearchReturned
    /\ expand_relationships(call.matched).tables = <<>>
    /\ call.result.tables # <<>>

\* C27: the relationships a matcher returns are closed over the tables it
\* returns. Whenever search_schema or _search_csv_schema returns, every
\* relationship of the result has its source_table and its target_table
\* among the keys of the returned table map; the list is empty when the
\* table map is empty or was produced by the fallback rule.
C27_RelationshipsClosed ==
    /\ SearchReturned =>
          /\ ClosedOverTables(call.result)
          /\ call.result.tables = <<>> => call.result.relationships = <<>>
          /\ FallbackApplied => call.result.relationships = <<>>
    /\ CsvSearchDone =>
          /\ ClosedOverTables(call.result)
          /\ call.result.tables = <<>> => call.result.relationships = <<>>

\* _search_csv_schema returned a relationship although the loader holds a join
\* it left out
C27_Witness ==
    /\ CsvSearchDone
    /\ call.result.relationships # <<>>
    /\ Len(call.result.relationships) < Len(get_foreign_keys)

----------------------------------------------------------------------------
(* Properties of the workflow *)

\* s is a prefix of t
IsPrefix(s, t) == Len(s) <= Len(t) /\ \A i \in DOMAIN s : s[i] = t[i]

RanGenerateSql == \E i \in DOMAIN graph_run.executed : graph_run.executed[i] = "generate_sql"

SimpleGraphRan == graph_run.by = <<"build_simple_graph">>

\* the run was started from initialize_state(query)
StartedFromNewState ==
    \/ SimpleGraphRan /\ \E q \in UserTexts : graph_run.before = initialize_state(q)
    \/ graph_run.by # <<>> /\ graph_run.by[1] = "process_new_query_simple"

\* C24: SQL is generated only after the user confirmed the explanation. A run
\* of the simple graph executes generate_sql only when detect_intent set
\* sql_intent and, at wait_for_feedback, user_feedback is "good" or the
\* forced-end flag is set; a run started from initialize_state(query)
\* executes at most detect_intent, explain_query, wait_for_feedback, in that
\* order, and no generate_sql; a handler runs generate_sql_node only in
\* response to feedback "good".
C24_SqlAfterConfirmation ==
    /\ (SimpleGraphRan /\ RanGenerateSql) =>
          /\ graph_run.state.sql_intent = "True"
          /\ \/ graph_run.state.user_feedback = "good"
             \/ "_force_end" \in DOMAIN graph_run.state /\ graph_run.state._force_end
          /\ graph_run.executed =
                <<"detect_intent", "explain_query", "wait_for_feedback", "generate_sql">>
    /\ StartedFromNewState =>
          IsPrefix(graph_run.executed,
                   <<"detect_intent", "explain_query", "wait_for_feedback">>)
    /\ (~SimpleGraphRan /\ RanGenerateSql) =>
          graph_run.by = <<"process_feedback_simple", "good">>

\* the user confirmed an explanation and the handler generated SQL
C24_Witness ==
    /\ graph_run.by = <<"process_feedback_simple", "good">>
    /\ graph_run.executed = <<"generate_sql">>
    /\ graph_run.state.generated_sql # "None"
    /\ graph_run.before.query_explanation # "None"

\* C26: the session flags are mutually exclusive. After any sequence of the
\* operations the page allows, awaiting_feedback and awaiting_clarification
\* are never both true.
C26_FlagsExclusive ==
    ~(session_state.awaiting_feedback /\ session_state.awaiting_clarification)

\* explaining the clarified query raised, after feedback had been awaited:
\* both flags are off
C26_Witness ==
    /\ graph_run.by # <<>>
    /\ graph_run.by[1] = "process_clarification_simple"
    /\ graph_run.state.query_explanation = graph_run.before.query_explanation
    /\ graph_run.state.current_query # graph_run.before.current_query
    /\ ~session_state.awaiting_feedback
    /\ ~session_state.awaiting_clarification

\* how many times a run executed a node
NodeExecutions(node) ==
    Cardinality({i \in DOMAIN graph_run.executed : graph_run.executed[i] = node})

GraphRan == graph_run.by = <<"build_graph">>

\* the waits of a run stay within the two thresholds, and generate_sql is
\* reached after the third wait for feedback or the fifth wait for clarification
WaitsBounded ==
    GraphRan =>
      /\ NodeExecutions("wait_for_feedback") <= FeedbackThreshold
      /\ NodeExecutions("wait_for_clarification") <= RecursionThreshold
      /\ (graph_run.before.user_feedback = "None" /\ RanGenerateSql)
            => /\ NodeExecutions("wait_for_feedback") = FeedbackThreshold
               /\ NodeExecutions("wait_for_clarification") = 0
      /\ (graph_run.before.user_feedback = "not_good" /\ RanGenerateSql)
            => /\ NodeExecutions("wait_for_clarification") = RecursionThreshold
               /\ NodeExecutions("wait_for_feedback") = 0
      /\ graph_run.before.user_feedback = "good"
            => /\ NodeExecutions("wait_for_feedback") = 0
               /\ NodeExecutions("wait_for_clarification") = 0

\* only explain_query_node and generate_sql_node, which call the model factory
\* and the retriever outside their try, end a run by an exception
RaisedOutsideTry ==
    graph_run.node = "raised" =>
        graph_run.executed[Len(graph_run.executed)] \in {"explain_query", "generate_sql"}

\* C25: every run of the full graph started from a new state reaches END,
\* after at most 3 waits for feedback when no feedback arrives and at most 5
\* waits for clarification when the feedback stays not_good
C25_RunReachesEnd ==
    /\ [] WaitsBounded
    /\ GraphRan ~> (graph_run.node = "END")

\* What holds of C25: every run ends, at END or by the exception of a node
\* that raised outside its try, within the same bounds on the waits
C25_RunTerminates ==
    /\ [] WaitsBounded
    /\ [] RaisedOutsideTry
    /\ GraphRan ~> (graph_run.node \in {"END", "raised"})

\* a run whose feedback stayed not_good reached END after five waits for
\* clarification
C25_Witness ==
    /\ GraphRan
    /\ graph_run.node = "END"
    /\ graph_run.before.user_feedback = "not_good"
    /\ NodeExecutions("wait_for_clarification") = RecursionThreshold

\* an operation of the node specification was applied to a state
NodeApplied == graph_run.before # None /\ graph_run.state # None

----------------------------------------------------------------------------
(* Properties of the services *)

Asked(op) == pc = "done" /\ call.op = op

\* C23: rails.run_input(text) returns (True, text) exactly when the input
\* rail allows the text and (False, None) otherwise; safeguarded_t2sql answers
\* a blocked question with the refusal and without calling the generator, and
\* an allowed one with what the generator returns for the unmodified question
C23_GuardrailGate ==
    Asked("safeguarded_t2sql") =>
        LET question == call.args[1]
            is_allowed == call.args[2]
        IN  /\ is_allowed =>
                /\ call.returned.run_input = <<TRUE, Str(question)>>
                /\ call.returned.effects = <<<<"_raw_t2sql", Str(question)>>>>
                /\ call.returned.result =
                      <<"SELECT simulated_data FROM table WHERE condition = '",
                        question, "';">>
            /\ ~is_allowed =>
                /\ call.returned.run_input = <<FALSE, None>>
                /\ call.returned.effects = <<>>
                /\ call.returned.result = Refusal

\* the rail blocked a DROP TABLE statement and the service refused it
C23_Witness ==
    /\ Asked("safeguarded_t2sql")
    /\ call.args = <<"DROP TABLE customers", FALSE>>
    /\ call.returned.result = Refusal

\* every cached result is the result of a call that executed its SQL and
\* explained its rows
OnlySuccessesCached ==
    \A i \in DOMAIN query_cache :
        \E sql_query \in Replies : query_cache[i].value = Explained(sql_query)

\* a call that finds its question cached returns the cached result and calls
\* neither the LLM nor the database; any other call invokes the LLM, and
\* stores its result exactly when it succeeded
CacheDecides ==
    Asked("generate_sql") =>
        LET key == cache_key(call.args[1])
        IN  IF key \in Keys(call.cache)
            THEN /\ call.returned.result = Get(call.cache, key)
                 /\ call.returned.effects = <<>>
                 /\ query_cache = call.cache
            ELSE /\ call.returned.effects # <<>>
                 /\ call.returned.effects[1] = "llm"
                 /\ IF call.args[2].outcome = "succeeds"
                    THEN /\ key \in Keys(query_cache)
                         /\ Get(query_cache, key) = call.returned.result
                    ELSE query_cache = call.cache

\* what is cached stays cached, unchanged
CacheKept ==
    \A key \in Keys(query_cache) :
        /\ key \in Keys(query_cache')
        /\ Get(query_cache', key) = Get(query_cache, key)

\* C29: the query cache of generate_sql holds only results of calls that
\* generated and executed their SQL; once a call for a question succeeded,
\* every later call for it returns that result without invoking the LLM or
\* the database; a call for a question that failed before invokes the LLM
C29_CacheOnlySuccesses ==
    /\ [] OnlySuccessesCached
    /\ [] CacheDecides
    /\ [][CacheKept]_vars

\* a question was answered from the cache while another one is cached too
C29_Witness ==
    /\ Asked("generate_sql")
    /\ cache_key(call.args[1]) \in Keys(call.cache)
    /\ call.returned.effects = <<>>
    /\ Len(query_cache) = 2

Executions(effects) ==
    Cardinality({i \in DOMAIN effects : effects[i] = "execute"})

\* what generate_sql_query returned is a query to execute
Executable(generated) ==
    /\ generated # None
    /\ generated.str # <<>>
    /\ ~str_startswith(generated.str, <<"-", "-", " ">>)

\* C30: process_query executes SQL at most once, and only a non-empty query
\* of the generator that does not start with '-- '; in every other outcome it
\* returns sql_query = None, results = None and a non-empty error and executes
\* nothing; it never raises
C30_ExecutesOnlyQueries ==
    Asked("process_query") =>
        /\ call.returned.raised = ""
        /\ Executions(call.returned.effects) <= 1
        /\ Executions(call.returned.effects) = 1 => Executable(call.returned.generated)
        /\ ~Executable(call.returned.generated) =>
              /\ Executions(call.returned.effects) = 0
              /\ call.returned.result.sql_query = None
              /\ call.returned.result.results = None
              /\ call.returned.result.error # None
              /\ call.returned.result.error.str # <<>>

\* the generator returned a '-- ' diagnostic left after the fences were
\* stripped, and nothing was executed
C30_Witness ==
    /\ Asked("process_query")
    /\ call.args[2].response \notin {SqlText.Diagnostic \o <<"U", "n", "a", "b", "l", "e">>}
    /\ call.returned.generated # None
    /\ str_startswith(call.returned.generated.str, SqlText.Diagnostic)
    /\ call.args[2].llm = "replies"
    /\ call.args[2].db_path
    /\ call.returned.result.sql_query = None
    /\ call.returned.effects = <<"init", "retrieve", "llm">>

====
